---- MODULE Spec2Model ----
(***************************************************************************)
(* Object store, zlib wrappers and pack decoder of the git client.         *)
(*                                                                         *)
(* Bytes are the integers 0..255.  A C string is the sequence of its bytes *)
(* without the terminating NUL, a buffer is the sequence of its bytes.     *)
(* A function that returns NULL or a non-zero code returns a record whose  *)
(* ok field is FALSE or whose rc field is 1.                               *)
(*                                                                         *)
(* Assumptions of the model: size_t is 64 bits wide (no value of the model *)
(* comes near 2^31), and malloc does not fail (also for a size of 0).      *)
(***************************************************************************)
EXTENDS Integers, Sequences, FiniteSets, TLC

VARIABLES
    fs,        \* the filesystem below the working directory: [files, dirs]
    pc,        \* "idle", or "pack" while packfile_parse is inside its loop;
               \* clone_repo: the step it is about to run, or "returned"
    pack,      \* the image handed to the current or last packfile_parse
    pos,       \* packfile_parse: cursor into the image (0-based)
    idx,       \* packfile_parse: loop counter i
    written,   \* packfile_parse: identifiers its records have written, in order
    ret,       \* arguments and results of the last operation (or loop step)
    dIn,       \* the arguments of a function that is run on its own
    dOut,      \* its result on dIn, once it has run
    heap,      \* clone_repo: the buffers that are allocated and not yet freed
    cwd        \* the working directory of the process: "original_dir", the
               \* one clone_repo was called in, or "dir", its target

vars == <<fs, pc, pack, pos, idx, written, ret, dIn, dOut, heap, cwd>>

----------------------------------------------------------------------------
(* Bounds of the model *)

\* operations that add objects start only while fewer objects are stored
MaxObjects == 1
\* number of records of a generated pack
MaxRecords == 2

----------------------------------------------------------------------------
(* Sequences of bytes *)

Take(s, n) == SubSeq(s, 1, n)
Drop(s, n) == SubSeq(s, n + 1, Len(s))

Min(a, b) == IF a < b THEN a ELSE b

\* memchr: 1-based index of the first c in s[from..to], 0 when there is none
memchr(s, c, from, to) ==
    LET hits == {i \in from..Min(to, Len(s)) : s[i] = c}
    IN  IF hits = {} THEN 0 ELSE CHOOSE i \in hits : \A j \in hits : i <= j

\* memcmp(a, b, n) == 0, for a buffer a that holds at least n bytes
StartsWith(a, b) == Len(a) >= Len(b) /\ Take(a, Len(b)) = b

\* printf("%zu") / printf("%ld") of a non-negative number
RECURSIVE FormatDecimal(_)
FormatDecimal(n) ==
    IF n < 10 THEN <<48 + n>> ELSE FormatDecimal(n \div 10) \o <<48 + (n % 10)>>

\* printf("%x") of one hex digit, lowercase
HexDigit(n) == IF n < 10 THEN 48 + n ELSE 87 + n

\* hex_to_string that prints with "%02X"
hex_to_string_upper(buffer, buffer_size) ==
    [i \in 1..(2 * buffer_size) |->
        LET b == buffer[(i + 1) \div 2]
            d == IF i % 2 = 1 THEN b \div 16 ELSE b % 16
        IN  IF d < 10 THEN 48 + d ELSE 55 + d]

\* hex_to_string: sprintf("%02x") of every byte
hex_to_string(buffer, buffer_size) ==
    [i \in 1..(2 * buffer_size) |->
        LET b == buffer[(i + 1) \div 2]
        IN  HexDigit(IF i % 2 = 1 THEN b \div 16 ELSE b % 16)]

----------------------------------------------------------------------------
(* Names *)

GIT_ROOT_DIR    == <<46, 103, 105, 116>>                       \* ".git"
GIT_REFS_DIR    == GIT_ROOT_DIR \o <<47, 114, 101, 102, 115>>  \* ".git/refs"
GIT_OBJECTS_DIR == GIT_ROOT_DIR \o <<47, 111, 98, 106, 101, 99, 116, 115>>
                                                               \* ".git/objects"
HEAD_FILE       == GIT_ROOT_DIR \o <<47, 72, 69, 65, 68>>      \* ".git/HEAD"
\* "ref: refs/heads/main\n"
HEAD_TEXT       == <<114, 101, 102, 58, 32, 114, 101, 102, 115, 47, 104, 101,
                     97, 100, 115, 47, 109, 97, 105, 110, 10>>

SHA_DIGEST_LENGTH == 20

OBJ_COMMIT    == 1
OBJ_TREE      == 2
OBJ_BLOB      == 3
OBJ_TAG       == 4
OBJ_OFS_DELTA == 6
OBJ_REF_DELTA == 7

StrCommit == <<99, 111, 109, 109, 105, 116>>
StrTree   == <<116, 114, 101, 101>>
StrBlob   == <<98, 108, 111, 98>>
StrTag    == <<116, 97, 103>>
StrPACK   == <<80, 65, 67, 75>>

\* type_name: NULL is the empty string here (no caller passes it on)
type_name(type) ==
    CASE type = OBJ_COMMIT -> StrCommit
      [] type = OBJ_TREE   -> StrTree
      [] type = OBJ_BLOB   -> StrBlob
      [] type = OBJ_TAG    -> StrTag
      [] OTHER             -> <<>>

----------------------------------------------------------------------------
(* SHA-1 (OpenSSL).  The digest is idealised: a buffer of at most 19 bytes  *)
(* is its own digest, zero-padded, with its length in the last byte, so no  *)
(* two such buffers collide.  A longer buffer (a tree, a commit) has the     *)
(* digest of its first 19 bytes and its length; the longer buffers of one   *)
(* behaviour differ in them.                                                *)

SHA1(data) ==
    [i \in 1..SHA_DIGEST_LENGTH |->
        IF i = SHA_DIGEST_LENGTH THEN Len(data) % 256
        ELSE IF i <= Len(data) THEN data[i] ELSE 0]

----------------------------------------------------------------------------
(* zlib.  The model knows the zlib container (RFC 1950) with stored deflate *)
(* blocks (RFC 1951, BTYPE = 00): a two-byte header, blocks of             *)
(* <<hdr, LEN lo, LEN hi, NLEN lo, NLEN hi>> and LEN literal bytes, and the *)
(* big-endian Adler-32 of the output.  A block of another type is a data    *)
(* error in the model.                                                      *)

RECURSIVE AdlerSums(_, _, _)
\* <<s, w>> for data[lo..hi]: s the sum of the bytes and w the sum of the
\* running sums, both modulo 65521, joined from the two halves of the range
AdlerSums(data, lo, hi) ==
    IF lo > hi THEN <<0, 0>>
    ELSE IF lo = hi THEN <<data[lo], data[lo]>>
    ELSE LET mid == (lo + hi) \div 2
             l == AdlerSums(data, lo, mid)
             r == AdlerSums(data, mid + 1, hi)
         IN  <<(l[1] + r[1]) % 65521,
               (l[2] + ((hi - mid) * l[1]) + r[2]) % 65521>>

\* a starts at 1 and b at 0: a = 1 + s, b = n + w
Adler32(data) ==
    LET s == AdlerSums(data, 1, Len(data))
        a == (1 + s[1]) % 65521
        b == (Len(data) + s[2]) % 65521
    IN  <<b \div 256, b % 256, a \div 256, a % 256>>

\* compress(): one final stored block
Deflate(data) ==
    LET n == Len(data)
    IN  <<120, 1>>
        \o <<1, n % 256, n \div 256, 255 - (n % 256), 255 - (n \div 256)>>
        \o data \o Adler32(data)

\* The blocks of a stream from 1-based index p on: status "end" with the output
\* and the index after the trailer, "trunc" when the input ends inside the
\* stream, "data" on a malformed stream.
RECURSIVE InflateBlocks(_, _, _)
InflateBlocks(data, p, acc) ==
    IF p + 4 > Len(data) THEN [status |-> "trunc", out |-> acc, next |-> p]
    ELSE
    LET hdr   == data[p]
        len   == data[p + 1] + 256 * data[p + 2]
        nlen  == data[p + 3] + 256 * data[p + 4]
        q     == p + 5
    IN  IF (hdr \div 2) % 4 # 0 \/ len + nlen # 65535
        THEN [status |-> "data", out |-> acc, next |-> p]
        ELSE IF q + len - 1 > Len(data)
        THEN [status |-> "trunc", out |-> acc, next |-> p]
        ELSE LET out == acc \o SubSeq(data, q, q + len - 1)
                 r   == q + len
             IN  IF hdr % 2 = 0 THEN InflateBlocks(data, r, out)
                 ELSE IF r + 3 > Len(data)
                 THEN [status |-> "trunc", out |-> out, next |-> r]
                 ELSE IF SubSeq(data, r, r + 3) # Adler32(out)
                 THEN [status |-> "data", out |-> out, next |-> r]
                 ELSE [status |-> "end", out |-> out, next |-> r + 4]

\* what inflate() reports for the blocks b of a stream that started at off
InflateResult(b, off) ==
    [status |-> b.status, out |-> b.out, consumed |-> b.next - 1 - off]

\* inflate() run to the end of the stream that starts at 0-based offset off
Inflate(data, off) ==
    IF off + 2 > Len(data) THEN [status |-> "trunc", out |-> <<>>, consumed |-> 0]
    ELSE
    LET cmf == data[off + 1]
        flg == data[off + 2]
    IN  IF cmf % 16 # 8 \/ (cmf * 256 + flg) % 31 # 0 \/ (flg \div 32) % 2 # 0
        THEN [status |-> "data", out |-> <<>>, consumed |-> 0]
        ELSE InflateResult(InflateBlocks(data, off + 3, <<>>), off)

\* The code uncompress returns for the inflated stream z.  The output that
\* does not fit is Z_BUF_ERROR, also when the stream is malformed or cut off
\* further on; a stream cut off is Z_DATA_ERROR once its output fits with
\* room to spare, and always for a destLen of 0.
uncompress_code(z, destLen) ==
    IF Len(z.out) > destLen /\ destLen > 0
    THEN [result |-> "Z_BUF_ERROR", out |-> <<>>]
    ELSE IF z.status = "trunc" /\ Len(z.out) = destLen /\ destLen > 0
    THEN [result |-> "Z_BUF_ERROR", out |-> <<>>]
    ELSE IF z.status # "end" THEN [result |-> "Z_DATA_ERROR", out |-> <<>>]
    ELSE IF Len(z.out) > destLen THEN [result |-> "Z_BUF_ERROR", out |-> <<>>]
    ELSE [result |-> "Z_OK", out |-> z.out]

\* uncompress(dest, &destLen, source, sourceLen)
uncompress(source, destLen) == uncompress_code(Inflate(source, 0), destLen)

\* the pass that tries again with the buffer size it had
decompress_step_same_size(dest_size, u) ==
    IF u.result = "Z_OK"
    THEN [pc |-> "returned", ok |-> TRUE, data |-> u.out, dest_size |-> dest_size]
    ELSE IF u.result # "Z_BUF_ERROR"
    THEN [pc |-> "returned", ok |-> FALSE, data |-> <<>>, dest_size |-> dest_size]
    ELSE [pc |-> "loop", ok |-> FALSE, data |-> <<>>, dest_size |-> dest_size]

\* one pass of the loop of decompress_data, u the result of its uncompress:
\* the function returns, or goes round with dest_size doubled
decompress_step(dest_size, u) ==
    IF u.result = "Z_OK"
    THEN [pc |-> "returned", ok |-> TRUE, data |-> u.out, dest_size |-> dest_size]
    ELSE IF u.result # "Z_BUF_ERROR"
    THEN [pc |-> "returned", ok |-> FALSE, data |-> <<>>, dest_size |-> dest_size]
    ELSE [pc |-> "loop", ok |-> FALSE, data |-> <<>>, dest_size |-> dest_size * 2]

RECURSIVE decompress_loop(_, _)
decompress_pass(compressed_data, dest_size, u) ==
    IF decompress_step(dest_size, u).pc = "returned"
    THEN [ok |-> decompress_step(dest_size, u).ok,
          data |-> decompress_step(dest_size, u).data]
    ELSE decompress_loop(compressed_data, decompress_step(dest_size, u).dest_size)

decompress_loop(compressed_data, dest_size) ==
    decompress_pass(compressed_data, dest_size,
                    uncompress(compressed_data, dest_size))

decompress_data(compressed_data, compressed_data_size) ==
    decompress_loop(compressed_data, compressed_data_size * 8)

compress_data(file_data, file_data_size) ==
    IF file_data_size = 0 THEN [ok |-> FALSE, data |-> <<>>]
    ELSE [ok |-> TRUE, data |-> Deflate(file_data)]

----------------------------------------------------------------------------
(* Filesystem.  fs.files maps the path of every regular file to its bytes, *)
(* fs.dirs is the set of directories.  Paths are relative to the working   *)
(* directory, which exists.  io is what the environment does to the one    *)
(* file an operation writes: "ok", "open_fails" (fopen returns NULL) or    *)
(* "short_write" (fwrite stores only part of the buffer, as on a full      *)
(* disk).                                                                  *)

IoOutcomes == {"ok", "open_fails", "short_write"}

LastSlash(path) ==
    LET hits == {i \in 1..Len(path) : path[i] = 47}
    IN  IF hits = {} THEN 0 ELSE CHOOSE i \in hits : \A j \in hits : i >= j

ParentExists(f, path) ==
    LastSlash(path) = 0 \/ Take(path, LastSlash(path) - 1) \in f.dirs

directory_exists(f, path) == path \in f.dirs

\* mkdir(path, DIRECTORY_PERMISSION): -1 when the path exists or its parent
\* does not
mkdir(f, path) ==
    IF path \in f.dirs \/ path \in DOMAIN f.files \/ ~ParentExists(f, path)
    THEN [rc |-> -1, fs |-> f]
    ELSE [rc |-> 0, fs |-> [f EXCEPT !.dirs = @ \cup {path}]]

SetFile(f, path, bytes) ==
    [f EXCEPT !.files = [p \in DOMAIN @ \cup {path} |->
                            IF p = path THEN bytes ELSE @[p]]]

read_file(f, file_absolute_path) ==
    IF file_absolute_path \in DOMAIN f.files
    THEN [ok |-> TRUE, data |-> f.files[file_absolute_path]]
    ELSE [ok |-> FALSE, data |-> <<>>]

\* write_file with mode "ab": fopen keeps the bytes the file holds
write_file_append(f, file_absolute_path, data, byte_count, mode, io) ==
    IF io = "open_fails" \/ file_absolute_path \in f.dirs
       \/ ~ParentExists(f, file_absolute_path)
    THEN [rc |-> 1, fs |-> f]
    ELSE LET old == IF file_absolute_path \in DOMAIN f.files
                    THEN f.files[file_absolute_path] ELSE <<>>
         IN  [rc |-> 0, fs |-> SetFile(f, file_absolute_path,
                                       old \o Take(data, byte_count))]

\* write_file: fopen(mode "wb") empties the file before fwrite fills it
write_file(f, file_absolute_path, data, byte_count, mode, io) ==
    IF io = "open_fails" \/ file_absolute_path \in f.dirs
       \/ ~ParentExists(f, file_absolute_path)
    THEN [rc |-> 1, fs |-> f]
    ELSE LET n == IF io = "short_write" THEN byte_count \div 2 ELSE byte_count
         IN  [rc |-> IF n # byte_count THEN 1 ELSE 0,
              fs |-> SetFile(f, file_absolute_path, Take(data, n))]

----------------------------------------------------------------------------
(* Object store *)

\* object_path with a one-character shard directory ("%.1s" for "%.2s")
object_path_shard1(sha_hex) ==
    IF Len(sha_hex) # 40
    THEN [rc |-> 1, abs_dir |-> <<>>, abs_file |-> <<>>]
    ELSE [rc |-> 0,
          abs_dir  |-> GIT_OBJECTS_DIR \o <<47>> \o Take(sha_hex, 1),
          abs_file |-> GIT_OBJECTS_DIR \o <<47>> \o Take(sha_hex, 1)
                       \o <<47>> \o Drop(sha_hex, 2)]

object_path(sha_hex) ==
    IF Len(sha_hex) # 40
    THEN [rc |-> 1, abs_dir |-> <<>>, abs_file |-> <<>>]
    ELSE [rc |-> 0,
          abs_dir  |-> GIT_OBJECTS_DIR \o <<47>> \o Take(sha_hex, 2),
          abs_file |-> GIT_OBJECTS_DIR \o <<47>> \o Take(sha_hex, 2)
                       \o <<47>> \o Drop(sha_hex, 2)]

\* log: the paths handed to the filesystem, in call order
read_git_blob_file(f, sha1_string) ==
    LET p == object_path(sha1_string)
    IN  IF p.rc # 0 THEN [ok |-> FALSE, data |-> <<>>, log |-> <<>>]
        ELSE LET r == read_file(f, p.abs_file)
             IN  [ok |-> r.ok, data |-> r.data, log |-> <<p.abs_file>>]

\* object_read returns 1
object_read_failed(log) ==
    [rc |-> 1, raw |-> <<>>, body |-> <<>>, body_size |-> 0, log |-> log]

\* the split with body = header_end for body = header_end + 1
object_read_split_keeps_nul(raw, nul, log) ==
    IF nul = 0 THEN object_read_failed(log)
    ELSE [rc |-> 0, raw |-> raw, body |-> Drop(raw, nul - 1),
          body_size |-> Len(raw) - (nul - 1), log |-> log]

\* header_end is at the 1-based index nul of raw (0: memchr found none);
\* body = header_end + 1, body_size = raw_size - (body - raw)
object_read_split(raw, nul, log) ==
    IF nul = 0 THEN object_read_failed(log)
    ELSE [rc |-> 0, raw |-> raw, body |-> Drop(raw, nul),
          body_size |-> Len(raw) - nul, log |-> log]

\* d is what decompress_data returned
object_read_raw(d, log) ==
    IF ~d.ok THEN object_read_failed(log)
    ELSE object_read_split(d.data, memchr(d.data, 0, 1, Len(d.data)), log)

\* c is what read_git_blob_file returned
object_read_compressed(c) ==
    IF ~c.ok THEN object_read_failed(c.log)
    ELSE object_read_raw(decompress_data(c.data, Len(c.data)), c.log)

object_read(f, sha1) == object_read_compressed(read_git_blob_file(f, sha1))

object_write(f, object_data, object_size, io) ==
    LET raw_hash == SHA1(Take(object_data, object_size))
        str_hash == hex_to_string(raw_hash, SHA_DIGEST_LENGTH)
        p        == object_path(str_hash)
        have     == directory_exists(f, p.abs_dir)
        m        == IF have THEN [rc |-> 0, fs |-> f] ELSE mkdir(f, p.abs_dir)
        c        == compress_data(object_data, object_size)
        w        == write_file(m.fs, p.abs_file, c.data, Len(c.data), "wb", io)
        dirlog   == IF have THEN <<p.abs_dir>> ELSE <<p.abs_dir, p.abs_dir>>
    IN  IF p.rc # 0 THEN [ok |-> FALSE, sha |-> <<>>, fs |-> f, log |-> <<>>]
        ELSE IF m.rc = -1
        THEN [ok |-> FALSE, sha |-> <<>>, fs |-> f, log |-> dirlog]
        ELSE IF ~c.ok
        THEN [ok |-> FALSE, sha |-> <<>>, fs |-> m.fs, log |-> dirlog]
        ELSE [ok |-> w.rc = 0, sha |-> IF w.rc = 0 THEN str_hash ELSE <<>>,
              fs |-> w.fs, log |-> dirlog \o <<p.abs_file>>]

\* write_pack_object, the framing: "<type> <body_size>\0<body>"
frame_object(type, body, body_size) ==
    type \o <<32>> \o FormatDecimal(body_size) \o <<0>> \o Take(body, body_size)

\* write_pack_object that hands the body to object_write without the header
write_pack_object_unframed(f, type, body, body_size, io) ==
    object_write(f, Take(body, body_size), body_size, io)

write_pack_object(f, type, body, body_size, io) ==
    LET obj == frame_object(type, body, body_size)
    IN  object_write(f, obj, Len(obj), io)

----------------------------------------------------------------------------
(* Pack decoder *)

\* data + off points at four bytes of the buffer
read_uint32_be(data, off) ==
    data[off + 1] * 16777216 + data[off + 2] * 65536
    + data[off + 3] * 256 + data[off + 4]

RECURSIVE size_continuation(_, _, _, _, _, _)
size_continuation(data, len, p, byte, size, shift) ==
    IF byte < 128 THEN [rc |-> 0, pos |-> p, size |-> size]
    ELSE IF p >= len THEN [rc |-> 1, pos |-> p, size |-> size]
    ELSE LET b == data[p + 1]
         IN  size_continuation(data, len, p + 1, b,
                               size + (b % 128) * 2 ^ shift, shift + 7)

read_type_and_size(data, len, p) ==
    IF p >= len THEN [rc |-> 1, pos |-> p, type |-> 0, size |-> 0]
    ELSE LET byte == data[p + 1]
             rest == size_continuation(data, len, p + 1, byte, byte % 16, 4)
         IN  [rc |-> rest.rc, pos |-> rest.pos,
              type |-> (byte \div 16) % 8, size |-> rest.size]

\* The buffer has expected bytes; inflate fills as many as the stream holds
\* and the rest keeps what malloc left there, the byte junk.
inflate_stream_end(z, expected, junk) ==
    IF z.status = "end" /\ Len(z.out) <= expected
    THEN [ok |-> TRUE, consumed |-> z.consumed,
          out |-> z.out \o [i \in 1..(expected - Len(z.out)) |-> junk]]
    ELSE [ok |-> FALSE, consumed |-> z.consumed, out |-> <<>>]

inflate_stream(data, off, avail_in, expected, junk) ==
    inflate_stream_end(Inflate(Take(data, off + avail_in), off), expected, junk)

RECURSIVE read_var_int_loop(_, _, _, _, _)
read_var_int_loop(data, len, p, value, shift) ==
    IF p >= len THEN [value |-> value, pos |-> p]
    ELSE LET byte == data[p + 1]
             v    == value + (byte % 128) * 2 ^ shift
         IN  IF byte < 128 THEN [value |-> v, pos |-> p + 1]
             ELSE read_var_int_loop(data, len, p + 1, v, shift + 7)

read_var_int(data, len, p) == read_var_int_loop(data, len, p, 0, 0)

\* memcpy that starts one byte late
memcpy_from_next(src, off, n) ==
    IF off + 1 + n <= Len(src) THEN SubSeq(src, off + 2, off + 1 + n)
    ELSE SubSeq(src, off + 2, Len(src))
         \o [i \in 1..(n - (Len(src) - Min(off + 1, Len(src)))) |-> 0]

\* memcpy of n bytes from src + off.  A byte outside src reads as 0 and is
\* reported: the caller's checks are there to keep that from happening.
memcpy_from(src, off, n) ==
    IF off + n <= Len(src) THEN SubSeq(src, off + 1, off + n)
    ELSE SubSeq(src, off + 1, Len(src))
         \o [i \in 1..(n - (Len(src) - Min(off, Len(src)))) |-> 0]

\* the operand bytes of a COPY command, selected by bits 0..6 of cmd
RECURSIVE copy_operands(_, _, _, _, _, _, _)
copy_operands(delta, delta_len, p, cmd, bit, offset, size) ==
    IF bit > 6 THEN [ok |-> TRUE, pos |-> p, offset |-> offset, size |-> size]
    ELSE IF (cmd \div 2 ^ bit) % 2 = 0
    THEN copy_operands(delta, delta_len, p, cmd, bit + 1, offset, size)
    ELSE IF p >= delta_len
    THEN [ok |-> FALSE, pos |-> p, offset |-> offset, size |-> size]
    ELSE IF bit < 4
    THEN copy_operands(delta, delta_len, p + 1, cmd, bit + 1,
                       offset + delta[p + 1] * 2 ^ (8 * bit), size)
    ELSE copy_operands(delta, delta_len, p + 1, cmd, bit + 1,
                       offset, size + delta[p + 1] * 2 ^ (8 * (bit - 4)))

\* the range check of COPY without its test of the base
copy_allowed_no_base_check(offset, size, base_len, rpos, tgt_size) ==
    ~(rpos + size > tgt_size)

\* "if (offset + size > base_len || rpos + size > tgt_size) goto corrupt"
copy_allowed(offset, size, base_len, rpos, tgt_size) ==
    ~(offset + size > base_len \/ rpos + size > tgt_size)

\* "if (pos + cmd > delta_len || rpos + cmd > tgt_size) goto corrupt"
insert_allowed(p, cmd, delta_len, rpos, tgt_size) ==
    ~(p + cmd > delta_len \/ rpos + cmd > tgt_size)

\* The instruction loop.  result holds the bytes written so far (rpos is its
\* length); unsafe records a memcpy that left the base, the delta or the
\* tgt_size bytes of the result.
RECURSIVE delta_loop(_, _, _, _, _, _, _, _)
delta_loop(base, base_len, delta, delta_len, tgt_size, p, result, unsafe) ==
    LET rpos    == Len(result)
        corrupt == [ok |-> FALSE, out |-> <<>>, out_len |-> 0, unsafe |-> unsafe]
    IN
    IF p >= delta_len
    THEN [ok |-> TRUE, out |-> result, out_len |-> rpos, unsafe |-> unsafe]
    ELSE
    LET cmd == delta[p + 1]
    IN  IF cmd >= 128
        THEN LET o    == copy_operands(delta, delta_len, p + 1, cmd, 0, 0, 0)
                 size == IF o.size = 0 THEN 65536 ELSE o.size
             IN  IF ~o.ok THEN corrupt
                 ELSE IF ~copy_allowed(o.offset, size, base_len, rpos, tgt_size)
                 THEN corrupt
                 ELSE delta_loop(base, base_len, delta, delta_len, tgt_size,
                                 o.pos, result \o memcpy_from(base, o.offset, size),
                                 unsafe \/ o.offset + size > base_len
                                        \/ rpos + size > tgt_size)
        ELSE IF cmd > 0
        THEN IF ~insert_allowed(p + 1, cmd, delta_len, rpos, tgt_size)
             THEN corrupt
             ELSE delta_loop(base, base_len, delta, delta_len, tgt_size,
                             p + 1 + cmd, result \o memcpy_from(delta, p + 1, cmd),
                             unsafe \/ p + 1 + cmd > delta_len
                                    \/ rpos + cmd > tgt_size)
        ELSE delta_loop(base, base_len, delta, delta_len, tgt_size,
                        p + 1, result, unsafe)

apply_delta(base, base_len, delta, delta_len) ==
    LET src  == read_var_int(delta, delta_len, 0)
        tgt  == read_var_int(delta, delta_len, src.pos)
        r    == delta_loop(base, base_len, delta, delta_len, tgt.value,
                           tgt.pos, <<>>, FALSE)
    IN  [ok |-> r.ok, out |-> r.out, out_len |-> r.out_len, unsafe |-> r.unsafe,
         src_size |-> src.value, tgt_size |-> tgt.value]


\* what one pass of the loop of packfile_parse reports when it wrote nothing
NoRecord ==
    [rc |-> 1, err |-> "", type |-> 0, size |-> 0, sha |-> <<>>,
     base_hex |-> <<>>, base_rc |-> 0, base_len |-> 0, src_size |-> 0,
     tgt_size |-> 0, out_len |-> 0, delta_ok |-> FALSE, obj |-> <<>>]

\* the base of a REF_DELTA, with a missing base taken for an empty blob
resolve_base_or_empty(f, base_hex) ==
    LET b == object_read(f, base_hex)
    IN  IF b.rc = 0 THEN b
        ELSE [rc |-> 0, raw |-> frame_object(StrBlob, <<>>, 0), body |-> <<>>,
              body_size |-> 0, log |-> b.log]

\* "if (object_read(base_hex, &base_obj) != 0) ... return 1"
resolve_base(f, base_hex) == object_read(f, base_hex)

\* One pass of the loop of packfile_parse, in the stages of its body.  Each
\* stage yields [rec, fs, pos]: rec.rc 0 and the new cursor and filesystem,
\* or rec.rc 1 and the diagnostic in rec.err.

pack_fail(rec, err, f, p) == [rec |-> [rec EXCEPT !.err = err], fs |-> f, pos |-> p]

\* "char *sha = write_pack_object(...); if (sha == NULL) return 1;"
pack_written(rec, w, obj, p) ==
    IF ~w.ok THEN pack_fail(rec, "object_write failed", w.fs, p)
    ELSE [rec |-> [rec EXCEPT !.rc = 0, !.sha = w.sha, !.obj = obj],
          fs |-> w.fs, pos |-> p]

pack_write(f, rec, type, body, body_size, io, p) ==
    pack_written(rec, write_pack_object(f, type, body, body_size, io),
                 frame_object(type, body, body_size), p)

\* the result d of apply_delta: NULL ends the parse, otherwise it is written
\* with the type of the base
pack_delta_applied(f, rec, d, base_type, io, p) ==
    IF ~d.ok THEN pack_fail(rec, "corrupt delta instruction stream", f, p)
    ELSE pack_write(f, rec, base_type, d.out, d.out_len, io, p)

pack_delta_result(f, rec, d, base_type, io, p) ==
    pack_delta_applied(f,
        [rec EXCEPT !.src_size = d.src_size, !.tgt_size = d.tgt_size,
                    !.out_len = d.out_len, !.delta_ok = d.ok],
        d, base_type, io, p)

\* the base b is read: its type is the word before the first space, found by
\* memchr(base_obj.raw, ' ', 32) within the bytes raw holds, cut to 15 bytes
pack_delta_typed(f, rec, b, space, delta, delta_len, io, p) ==
    IF space = 0 THEN pack_fail(rec, "malformed base object header", f, p)
    ELSE pack_delta_result(f, rec,
             apply_delta(b.body, b.body_size, delta, delta_len),
             Take(b.raw, Min(space - 1, 15)), io, p)

pack_delta_based(f, rec, b, delta, delta_len, io, p) ==
    IF b.rc # 0 THEN pack_fail(rec, "cannot read base object", f, p)
    ELSE pack_delta_typed(f, rec, b, memchr(b.raw, 32, 1, 32),
                          delta, delta_len, io, p)

pack_delta_base(f, rec, b, delta, delta_len, io, p) ==
    pack_delta_based(f,
        [rec EXCEPT !.base_rc = b.rc, !.base_len = b.body_size],
        b, delta, delta_len, io, p)

pack_delta(f, rec, base_hex, delta, delta_len, io, p) ==
    pack_delta_base(f, [rec EXCEPT !.base_hex = base_hex],
                    resolve_base(f, base_hex), delta, delta_len, io, p)

\* the dispatch that writes a record of any other type as a blob
pack_body_any_kind(f, rec, type, size, base_sha_bin, body, io, p) ==
    IF type = OBJ_REF_DELTA
    THEN pack_delta(f, rec, hex_to_string(base_sha_bin, 20), body, size, io, p)
    ELSE pack_write(f, rec,
                    IF type >= OBJ_COMMIT /\ type <= OBJ_TAG THEN type_name(type)
                    ELSE StrBlob,
                    body, size, io, p)

\* the body is inflated: dispatch on the type of the record
pack_body(f, rec, type, size, base_sha_bin, body, io, p) ==
    IF type >= OBJ_COMMIT /\ type <= OBJ_TAG
    THEN pack_write(f, rec, type_name(type), body, size, io, p)
    ELSE IF type = OBJ_REF_DELTA
    THEN pack_delta(f, rec, hex_to_string(base_sha_bin, 20), body, size, io, p)
    ELSE pack_fail(rec, "unsupported object type", f, p)

pack_inflated(f, rec, type, size, base_sha_bin, inf, p1, io) ==
    IF ~inf.ok THEN pack_fail(rec, "inflate failed", f, p1)
    ELSE pack_body(f, rec, type, size, base_sha_bin, inf.out, io,
                   p1 + inf.consumed)

\* the cursor p1 is at the zlib stream
pack_inflate(f, data, len, rec, type, size, base_sha_bin, p1, io, junk) ==
    pack_inflated(f, rec, type, size, base_sha_bin,
                  inflate_stream(data, p1, len - p1, size, junk), p1, io)

\* the header h is read: a REF_DELTA carries the 20 bytes of its base next
pack_headed(f, data, len, h, io, junk) ==
    IF h.rc # 0
    THEN pack_fail(NoRecord, "truncated object header", f, h.pos)
    ELSE IF h.type = OBJ_REF_DELTA /\ h.pos + 20 > len
    THEN pack_fail([NoRecord EXCEPT !.type = h.type, !.size = h.size],
                   "truncated REF_DELTA SHA", f, h.pos)
    ELSE IF h.type = OBJ_REF_DELTA
    THEN pack_inflate(f, data, len,
                      [NoRecord EXCEPT !.type = h.type, !.size = h.size],
                      h.type, h.size, SubSeq(data, h.pos + 1, h.pos + 20),
                      h.pos + 20, io, junk)
    ELSE pack_inflate(f, data, len,
                      [NoRecord EXCEPT !.type = h.type, !.size = h.size],
                      h.type, h.size, <<>>, h.pos, io, junk)

pack_record(f, data, len, p, io, junk) ==
    pack_headed(f, data, len, read_type_and_size(data, len, p), io, junk)

\* the header test without the test of the version
pack_header_error_no_version(data, len) ==
    IF len < 12 \/ ~StartsWith(data, StrPACK) THEN "not a valid packfile"
    ELSE ""

\* the header test of packfile_parse: "" when the image passes
pack_header_error(data, len) ==
    IF len < 12 \/ ~StartsWith(data, StrPACK) THEN "not a valid packfile"
    ELSE IF read_uint32_be(data, 4) # 2 THEN "unsupported version"
    ELSE ""

----------------------------------------------------------------------------
(* Inputs *)

Kinds  == {StrCommit, StrTree, StrBlob, StrTag}
\* the empty body and a body with a NUL byte
Bodies == {<<>>, <<65, 0>>}

ObjectId(object_data) == hex_to_string(SHA1(object_data), SHA_DIGEST_LENGTH)

\* identifiers handed to object_read: those of two framed inputs, and strings
\* of 0, 39 and 41 characters
ReadIds ==
    { ObjectId(frame_object(StrBlob, <<>>, 0)),
      ObjectId(frame_object(StrCommit, <<65, 0>>, 2)),
      <<>>, Take(ObjectId(<<>>), 39), ObjectId(<<>>) \o <<48>> }

RECURSIVE Concat(_)
Concat(ss) == IF ss = <<>> THEN <<>> ELSE Head(ss) \o Concat(Tail(ss))

SeqsUpTo(S, n) == UNION {[1..k -> S] : k \in 0..n}

\* the variable-length type and size header of a pack record
RECURSIVE EncodeSizeRest(_)
EncodeSizeRest(n) ==
    IF n < 128 THEN <<n>> ELSE <<128 + (n % 128)>> \o EncodeSizeRest(n \div 128)

EncodeTypeAndSize(type, size) ==
    IF size < 16 THEN <<(type * 16) + size>>
    ELSE <<128 + (type * 16) + (size % 16)>> \o EncodeSizeRest(size \div 16)

\* a varint of a delta stream
EncodeVarInt(n) == EncodeSizeRest(n)

PackRecordBytes(type, size, base_sha_bin, body) ==
    EncodeTypeAndSize(type, size) \o base_sha_bin \o Deflate(body)

BlobHi    == frame_object(StrBlob, <<104, 105>>, 2)        \* "blob 2\0hi"
BlobHiBang == frame_object(StrBlob, <<104, 105, 33>>, 3)   \* "blob 3\0hi!"

\* COPY offset 0 size 2; INSERT "!"
DeltaAppend   == <<2, 3, 144, 2, 1, 33>>
\* declares 3 target bytes, produces 2
DeltaShort    == <<2, 3, 144, 2>>
\* declares a base of 3 bytes; INSERT "?"
DeltaWrongSrc == <<3, 1, 1, 63>>
\* COPY offset 1 size 2 of a base of 2 bytes
DeltaOutside  == <<2, 2, 145, 1, 2>>
\* against "hi!": COPY offset 1 size 2
DeltaOfDelta  == <<3, 2, 145, 1, 2>>

RecBlobHi      == PackRecordBytes(OBJ_BLOB, 2, <<>>, <<104, 105>>)
RecDeltaAppend ==
    PackRecordBytes(OBJ_REF_DELTA, Len(DeltaAppend), SHA1(BlobHi), DeltaAppend)

PackRecords ==
    { RecBlobHi,
      RecDeltaAppend,
      PackRecordBytes(OBJ_COMMIT, 2, <<>>, <<65, 0>>),
      PackRecordBytes(OBJ_TAG, 0, <<>>, <<>>),
      PackRecordBytes(OBJ_BLOB, 3, <<>>, <<104, 105>>),
      PackRecordBytes(OBJ_BLOB, 1, <<>>, <<104, 105>>),
      PackRecordBytes(OBJ_OFS_DELTA, 2, <<>>, <<104, 105>>),
      PackRecordBytes(OBJ_REF_DELTA, Len(DeltaShort), SHA1(BlobHi), DeltaShort),
      PackRecordBytes(OBJ_REF_DELTA, Len(DeltaWrongSrc), SHA1(BlobHi),
                      DeltaWrongSrc),
      PackRecordBytes(OBJ_REF_DELTA, Len(DeltaOutside), SHA1(BlobHi),
                      DeltaOutside),
      PackRecordBytes(OBJ_REF_DELTA, Len(DeltaOfDelta), SHA1(BlobHiBang),
                      DeltaOfDelta) }

PackHeader(magic, version, count) ==
    magic \o <<0, 0, version \div 256, version % 256>>
          \o <<0, 0, count \div 256, count % 256>>

\* well-formed images: "PACK", version 2, the count of the records that follow
GoodImages ==
    {PackHeader(StrPACK, 2, Len(rs)) \o Concat(rs) :
        rs \in SeqsUpTo(PackRecords, MaxRecords)}

\* images with a bad header, a count beyond the records, or a cut-off end
BadImages ==
    UNION {
        { PackHeader(<<80, 65, 67, 88>>, 2, 1) \o r,
          PackHeader(StrPACK, 3, 1) \o r,
          PackHeader(StrPACK, 2, 2) \o r,
          Take(PackHeader(StrPACK, 2, 1) \o r, Len(r) + 11),
          Take(PackHeader(StrPACK, 2, 1) \o r, 13) } : r \in PackRecords }
    \cup {Take(PackHeader(StrPACK, 2, 0), 11), Take(StrPACK, 3)}

\* records of the type codes 0, 5 and 6: each with a zlib stream right
\* after its header, and an OFS_DELTA with its offset byte before the stream
OtherKindRecords ==
    { PackRecordBytes(0, 2, <<>>, <<104, 105>>),
      PackRecordBytes(5, 2, <<>>, <<104, 105>>),
      PackRecordBytes(5, 0, <<>>, <<>>),
      PackRecordBytes(OBJ_OFS_DELTA, Len(DeltaAppend), <<12>>, DeltaAppend) }

\* images with such a record alone, after a blob, and before one
OtherKindImages ==
    UNION {
        { PackHeader(StrPACK, 2, 1) \o r,
          PackHeader(StrPACK, 2, 2) \o RecBlobHi \o r,
          PackHeader(StrPACK, 2, 2) \o r \o RecBlobHi } : r \in OtherKindRecords }

PackImages == GoodImages \cup BadImages \cup OtherKindImages

----------------------------------------------------------------------------
(* State *)

\* the repository init_git leaves
InitFs ==
    [files |-> (HEAD_FILE :> HEAD_TEXT),
     dirs  |-> {GIT_ROOT_DIR, GIT_REFS_DIR, GIT_OBJECTS_DIR}]

StoredPaths(f) == {p \in DOMAIN f.files : StartsWith(p, GIT_OBJECTS_DIR)}
NumObjects(f) == Cardinality(StoredPaths(f))

NoCall == [op |-> "init_git"]
NoDelta == [base |-> <<>>, delta |-> <<>>]
NoDeltaResult == [done |-> FALSE]

Init ==
    /\ fs = InitFs
    /\ pc = "idle"
    /\ pack = <<>>
    /\ pos = 0
    /\ idx = 0
    /\ written = <<>>
    /\ ret = NoCall
    /\ dIn = NoDelta
    /\ dOut = NoDeltaResult
    /\ heap = {}
    /\ cwd = "original_dir"

----------------------------------------------------------------------------
(* Operations of the object store *)

\* object_write of the framed bytes of (kind, body).  had tells whether the
\* object could be read before the call.
ObjectWrite(kind, body, io) ==
    /\ pc = "idle"
    /\ \E object_data \in {frame_object(kind, body, Len(body))} :
       \E w \in {object_write(fs, object_data, Len(object_data), io)} :
        /\ NumObjects(w.fs) <= MaxObjects
        /\ fs' = w.fs
        /\ ret' = [op |-> "object_write", kind |-> kind, body |-> body,
                   data |-> object_data, io |-> io, ok |-> w.ok, sha |-> w.sha,
                   log |-> w.log,
                   had |-> object_read(fs, ObjectId(object_data)).rc = 0]
    /\ UNCHANGED <<pc, pack, pos, idx, written, dIn, dOut, heap, cwd>>

ObjectRead(sha1) ==
    /\ pc = "idle"
    /\ \E r \in {object_read(fs, sha1)} :
        ret' = [op |-> "object_read", sha1 |-> sha1, rc |-> r.rc,
                raw |-> r.raw, body |-> r.body, body_size |-> r.body_size,
                log |-> r.log]
    /\ UNCHANGED <<fs, pc, pack, pos, idx, written, dIn, dOut, heap, cwd>>

Next ==
    \/ \E k \in Kinds, b \in Bodies, io \in IoOutcomes : ObjectWrite(k, b, io)
    \/ \E id \in ReadIds : ObjectRead(id)

Spec == Init /\ [][Next]_vars

----------------------------------------------------------------------------
(* packfile_parse: the header test, then one step per pass of its loop *)

JunkBytes == {0, 255}

obj_count == read_uint32_be(pack, 8)

PackfileParseBegin(data) ==
    /\ pc = "idle"
    /\ ret.op # "packfile_parse"
    /\ \E e \in {pack_header_error(data, Len(data))} :
       \E n \in {IF e = "" THEN read_uint32_be(data, 8) ELSE 0} :
        /\ pack' = data
        /\ written' = <<>>
        /\ idx' = 0
        /\ pos' = IF e = "" THEN 12 ELSE 0
        /\ pc' = IF e = "" /\ n > 0 THEN "pack" ELSE "idle"
        /\ ret' = [op |-> "packfile_parse",
                   rc |-> IF e # "" THEN 1 ELSE IF n > 0 THEN -1 ELSE 0,
                   rec |-> [NoRecord EXCEPT !.err = e], io |-> "ok"]
    /\ UNCHANGED <<fs, dIn, dOut, heap, cwd>>

PackRecord(io, junk) ==
    /\ pc = "pack"
    /\ \E r \in {pack_record(fs, pack, Len(pack), pos, io, junk)} :
        /\ fs' = r.fs
        /\ pos' = r.pos
        /\ idx' = IF r.rec.rc = 0 THEN idx + 1 ELSE idx
        /\ written' = IF r.rec.rc = 0 THEN Append(written, r.rec.sha)
                      ELSE written
        /\ pc' = IF r.rec.rc = 0 /\ idx + 1 < obj_count THEN "pack" ELSE "idle"
        /\ ret' = [op |-> "packfile_parse",
                   rc |-> IF r.rec.rc # 0 THEN 1
                          ELSE IF idx + 1 < obj_count THEN -1 ELSE 0,
                   rec |-> r.rec, io |-> io]
    /\ UNCHANGED <<pack, dIn, dOut, heap, cwd>>

\* the stores packfile_parse may find: the one init_git leaves, and that one
\* after object_write of the blob "hi"
PackStartStores == {InitFs, object_write(InitFs, BlobHi, Len(BlobHi), "ok").fs}

InitPack ==
    /\ fs \in PackStartStores
    /\ pc = "idle"
    /\ pack = <<>>
    /\ pos = 0
    /\ idx = 0
    /\ written = <<>>
    /\ ret = NoCall
    /\ dIn = NoDelta
    /\ dOut = NoDeltaResult
    /\ heap = {}
    /\ cwd = "original_dir"

NextPack ==
    \/ \E data \in PackImages : PackfileParseBegin(data)
    \/ \E io \in IoOutcomes, junk \in JunkBytes : PackRecord(io, junk)

SpecPack == InitPack /\ [][NextPack]_vars

----------------------------------------------------------------------------
(* apply_delta on its own: one call on a base and a delta stream *)

MaxInstrs == 2

DeltaBases == {<<>>, <<65, 66>>, <<65, 65, 65, 65, 66, 66, 66, 66>>}

DeltaInstrs ==
    { <<144, 4>>,                \* COPY offset 0 size 4
      <<145, 4, 4>>,             \* COPY offset 4 size 4
      <<145, 1, 2>>,             \* COPY offset 1 size 2
      <<128>>,                   \* COPY offset 0 size 0, that is 0x10000
      <<146, 1, 1>>,             \* COPY offset 256 size 1
      <<145, 1>>,                \* COPY whose size byte is missing
      <<4, 67, 67, 67, 67>>,     \* INSERT "CCCC"
      <<1, 67>>,                 \* INSERT "C"
      <<3, 67>>,                 \* INSERT of 3 bytes, one present
      <<0>> }                    \* reserved

DeltaTargets == {0, 2, 4, 8, 12, 200}

\* a base of 0x10001 bytes, for the COPY whose size bytes are all absent or 0
BigBase == [i \in 1..65537 |-> i % 251]

\* base "AAAABBBB" with COPY 0 4, INSERT "CCCC", COPY 4 4; the same with a
\* reserved byte between the instructions; and COPY commands of size 0x10000
\* from offset 0 and from offset 1 of the big base
DeltaExamples ==
    { [base |-> <<65, 65, 65, 65, 66, 66, 66, 66>>,
       delta |-> <<8, 12, 144, 4, 4, 67, 67, 67, 67, 145, 4, 4>>],
      [base |-> <<65, 65, 65, 65, 66, 66, 66, 66>>,
       delta |-> <<8, 12, 144, 4, 0, 4, 67, 67, 67, 67, 0, 145, 4, 4>>],
      [base |-> BigBase,
       delta |-> EncodeVarInt(65537) \o EncodeVarInt(65536) \o <<128>>],
      [base |-> BigBase,
       delta |-> EncodeVarInt(65537) \o EncodeVarInt(65537) \o <<129, 1, 1, 90>>],
      [base |-> BigBase,
       delta |-> EncodeVarInt(65537) \o EncodeVarInt(65536) \o <<176, 0, 0>>] }

DeltaInputs ==
    { [base |-> b,
       delta |-> EncodeVarInt(Len(b) + e) \o EncodeVarInt(t) \o Concat(is)] :
        b \in DeltaBases, e \in {0, 1}, t \in DeltaTargets,
        is \in SeqsUpTo(DeltaInstrs, MaxInstrs) }
    \cup { [base |-> <<65, 66>>, delta |-> d] : d \in {<<>>, <<130>>, <<2, 130>>} }
    \cup DeltaExamples

ApplyDelta ==
    /\ ~dOut.done
    /\ \E d \in {apply_delta(dIn.base, Len(dIn.base), dIn.delta,
                             Len(dIn.delta))} :
        dOut' = [done |-> TRUE, ok |-> d.ok, out |-> d.out,
                 out_len |-> d.out_len, unsafe |-> d.unsafe,
                 src_size |-> d.src_size, tgt_size |-> d.tgt_size]
    /\ UNCHANGED <<fs, pc, pack, pos, idx, written, ret, dIn, heap, cwd>>

InitDelta ==
    /\ fs = InitFs
    /\ pc = "idle"
    /\ pack = <<>>
    /\ pos = 0
    /\ idx = 0
    /\ written = <<>>
    /\ ret = NoCall
    /\ dIn \in DeltaInputs
    /\ dOut = NoDeltaResult
    /\ heap = {}
    /\ cwd = "original_dir"

NextDelta == ApplyDelta

SpecDelta == InitDelta /\ [][NextDelta]_vars

----------------------------------------------------------------------------
(* pkt-line framing: ref discovery, want request, side-band strip *)

\* hex_digit that reads a character that is no hex digit as 0
hex_digit_lenient(c) ==
    IF c >= 48 /\ c <= 57 THEN c - 48
    ELSE IF c >= 97 /\ c <= 102 THEN c - 97 + 10
    ELSE IF c >= 65 /\ c <= 70 THEN c - 65 + 10
    ELSE 0

\* one hex character of a length prefix: -1 when it is none
hex_digit(c) ==
    IF c >= 48 /\ c <= 57 THEN c - 48
    ELSE IF c >= 97 /\ c <= 102 THEN c - 97 + 10
    ELSE IF c >= 65 /\ c <= 70 THEN c - 65 + 10
    ELSE -1

\* hex4_to_int(data + off): the caller has checked that off + 4 <= data_len
hex4_to_int(data, off) ==
    IF \E i \in 1..4 : hex_digit(data[off + i]) = -1 THEN -1
    ELSE hex_digit(data[off + 1]) * 4096 + hex_digit(data[off + 2]) * 256
         + hex_digit(data[off + 3]) * 16 + hex_digit(data[off + 4])

RECURSIVE parse_head_loop(_, _, _, _)
\* the pass that takes the first line of 40 bytes or more, flush seen or not
parse_head_line_any(data, data_len, p, seen_flush, pkt_len) ==
    IF pkt_len < 0 THEN [rc |-> 1, sha |-> <<>>, err |-> "invalid hex length"]
    ELSE IF pkt_len = 0 THEN parse_head_loop(data, data_len, p + 4, TRUE)
    ELSE IF pkt_len < 4 \/ p + pkt_len > data_len
    THEN [rc |-> 1, sha |-> <<>>, err |-> "bad packet length"]
    ELSE IF pkt_len - 4 >= 40
    THEN [rc |-> 0, sha |-> SubSeq(data, p + 5, p + 44), err |-> ""]
    ELSE parse_head_loop(data, data_len, p + pkt_len, seen_flush)

\* one pass of the loop of pktline_parse_head over the line at p
parse_head_line(data, data_len, p, seen_flush, pkt_len) ==
    IF pkt_len < 0 THEN [rc |-> 1, sha |-> <<>>, err |-> "invalid hex length"]
    ELSE IF pkt_len = 0 THEN parse_head_loop(data, data_len, p + 4, TRUE)
    ELSE IF pkt_len < 4 \/ p + pkt_len > data_len
    THEN [rc |-> 1, sha |-> <<>>, err |-> "bad packet length"]
    ELSE IF seen_flush
    THEN IF pkt_len - 4 < 40
         THEN [rc |-> 1, sha |-> <<>>, err |-> "ref line too short"]
         ELSE [rc |-> 0, sha |-> SubSeq(data, p + 5, p + 44), err |-> ""]
    ELSE parse_head_loop(data, data_len, p + pkt_len, seen_flush)

parse_head_loop(data, data_len, p, seen_flush) ==
    IF p + 4 <= data_len
    THEN parse_head_line(data, data_len, p, seen_flush, hex4_to_int(data, p))
    ELSE [rc |-> 1, sha |-> <<>>, err |-> "HEAD SHA not found"]

pktline_parse_head(data, data_len) == parse_head_loop(data, data_len, 0, FALSE)

\* "0032want "
WantPrefix == <<48, 48, 51, 50, 119, 97, 110, 116, 32>>
\* "\n00000009done\n"
WantSuffix == <<10, 48, 48, 48, 48, 48, 48, 48, 57, 100, 111, 110, 101, 10>>

\* printf("%.<n>s"): at most n characters of the string
printf_precision(str, n) == IF Len(str) > n THEN Take(str, n) ELSE str

\* the want request with a capability token after the identifier
pktline_build_want_caps(sha, junk) ==
    [rc |-> 0, out_len |-> 63,
     body |-> Take(WantPrefix \o printf_precision(sha, 40) \o <<32, 111, 102, 115>>
                   \o WantSuffix \o <<0>> \o [i \in 1..64 |-> junk], 63)]

\* pktline_build_want: snprintf of "0032want %.40s\n00000009done\n" into
\* malloc(64); the bytes after the terminating NUL keep what malloc left
\* there.  body is the out_len bytes the caller is told about.
pktline_build_want(sha, junk) ==
    [rc |-> 0, out_len |-> 63,
     body |-> Take(WantPrefix \o printf_precision(sha, 40) \o WantSuffix \o <<0>>
                   \o [i \in 1..64 |-> junk], 63)]

RECURSIVE strip_loop(_, _, _, _)
\* the pass that ends the scan at a flush line
strip_line_stops_at_flush(data, data_len, p, out, pkt_len) ==
    IF pkt_len <= 0 THEN out
    ELSE IF pkt_len < 4 \/ p + pkt_len > data_len THEN out
    ELSE IF pkt_len > 5 /\ data[p + 5] = 1
    THEN strip_loop(data, data_len, p + pkt_len,
                    out \o SubSeq(data, p + 6, p + pkt_len))
    ELSE strip_loop(data, data_len, p + pkt_len, out)

\* one pass of the first loop of pktline_strip_sideband over the line at p
strip_line(data, data_len, p, out, pkt_len) ==
    IF pkt_len < 0 THEN out
    ELSE IF pkt_len = 0 THEN strip_loop(data, data_len, p + 4, out)
    ELSE IF pkt_len < 4 \/ p + pkt_len > data_len THEN out
    ELSE IF pkt_len > 5 /\ data[p + 5] = 1
    THEN strip_loop(data, data_len, p + pkt_len,
                    out \o SubSeq(data, p + 6, p + pkt_len))
    ELSE strip_loop(data, data_len, p + pkt_len, out)

strip_loop(data, data_len, p, out) ==
    IF p + 4 <= data_len
    THEN strip_line(data, data_len, p, out, hex4_to_int(data, p))
    ELSE out

\* the fallback: the 0-based index of the first "PACK", -1 when there is none
find_pack(data, data_len) ==
    IF \E i \in 0..(data_len - 4) : SubSeq(data, i + 1, i + 4) = StrPACK
    THEN CHOOSE i \in 0..(data_len - 4) :
            /\ SubSeq(data, i + 1, i + 4) = StrPACK
            /\ \A j \in 0..(i - 1) : SubSeq(data, j + 1, j + 4) # StrPACK
    ELSE -1

strip_fallback(data, data_len, i) ==
    IF i < 0 THEN [rc |-> 1, pack |-> <<>>, pack_len |-> 0]
    ELSE [rc |-> 0, pack |-> SubSeq(data, i + 1, data_len),
          pack_len |-> data_len - i]

\* out is what the scan of the lines collected
strip_scanned(data, data_len, out) ==
    IF Len(out) > 0 THEN [rc |-> 0, pack |-> out, pack_len |-> Len(out)]
    ELSE strip_fallback(data, data_len, find_pack(data, data_len))

pktline_strip_sideband(data, data_len) ==
    strip_scanned(data, data_len, strip_loop(data, data_len, 0, <<>>))


(* Inputs of the pkt-line functions.  A response is a sequence of pieces;   *)
(* a piece of kind "line" is a well-formed line with its payload, "flush"   *)
(* is "0000", and the other kinds are bytes that are no well-formed line.   *)

MaxLines == 3

\* printf("%04x")
Hex4(n) ==
    <<HexDigit(n \div 4096), HexDigit((n \div 256) % 16),
      HexDigit((n \div 16) % 16), HexDigit(n % 16)>>

PktLine(payload) ==
    [kind |-> "line", payload |-> payload,
     bytes |-> Hex4(Len(payload) + 4) \o payload]

PktOther(kind, bytes) == [kind |-> kind, payload |-> <<>>, bytes |-> bytes]

PktFlush == PktOther("flush", <<48, 48, 48, 48>>)

IdA == ObjectId(BlobHi)
IdB == ObjectId(BlobHiBang)

RefPieces ==
    { PktFlush,
      PktLine(<<35, 10>>),                          \* "#\n", an announcement
      PktLine(IdA \o <<32, 72>>),                   \* "<IdA> H"
      PktLine(IdB \o <<10>>),                       \* "<IdB>\n"
      \* "<IdB>" behind the upper-case prefix "002C"
      [kind |-> "line", payload |-> IdB, bytes |-> <<48, 48, 50, 67>> \o IdB],
      PktLine(<<97, 98, 99>>),                      \* "abc"
      PktOther("badhex", <<48, 48, 48, 103>>),      \* "000g"
      PktOther("short", <<48, 48, 48, 51>>),        \* "0003"
      PktOther("overlong", <<102, 102, 102, 102, 97, 98>>) }  \* "ffffab"

\* "00": fewer than four bytes, at the end of a response
PktPartial == PktOther("partial", <<48, 48>>)

BandPieces ==
    { PktFlush,
      PktLine(<<78, 65, 75, 10>>),                  \* "NAK\n"
      PktLine(<<1>> \o StrPACK),                    \* channel 1, "PACK"
      PktLine(<<1, 120, 121>>),                     \* channel 1, "xy"
      PktLine(<<2, 104, 105>>),                     \* channel 2, "hi"
      PktLine(<<3, 101, 114>>),                     \* channel 3, "er"
      PktLine(<<1>>),                               \* channel 1, no payload
      PktOther("raw", StrPACK \o <<0, 7>>),         \* pack bytes, unframed
      PktOther("badhex", <<48, 48, 48, 103>>) }     \* "000g"

PieceBytes(pieces) == Concat([i \in 1..Len(pieces) |-> pieces[i].bytes])

WantIds == {IdA, IdB, Take(IdA, 39), IdA \o <<48>>, <<>>}

PktInputs ==
    { [fn |-> "pktline_parse_head", pieces |-> ps \o tail] :
        ps \in SeqsUpTo(RefPieces, MaxLines), tail \in {<<>>, <<PktPartial>>} }
    \cup { [fn |-> "pktline_strip_sideband", pieces |-> ps] :
             ps \in SeqsUpTo(BandPieces, MaxLines) }
    \cup { [fn |-> "pktline_build_want", sha |-> id] : id \in WantIds }

PktlineParseHead ==
    /\ ~dOut.done
    /\ dIn.fn = "pktline_parse_head"
    /\ \E data \in {PieceBytes(dIn.pieces)} :
       \E r \in {pktline_parse_head(data, Len(data))} :
        dOut' = [done |-> TRUE, data |-> data, rc |-> r.rc, sha |-> r.sha,
                 err |-> r.err]
    /\ UNCHANGED <<fs, pc, pack, pos, idx, written, ret, dIn, heap, cwd>>

PktlineStripSideband ==
    /\ ~dOut.done
    /\ dIn.fn = "pktline_strip_sideband"
    /\ \E data \in {PieceBytes(dIn.pieces)} :
       \E r \in {pktline_strip_sideband(data, Len(data))} :
        dOut' = [done |-> TRUE, data |-> data, rc |-> r.rc, pack |-> r.pack,
                 pack_len |-> r.pack_len]
    /\ UNCHANGED <<fs, pc, pack, pos, idx, written, ret, dIn, heap, cwd>>

PktlineBuildWant(junk) ==
    /\ ~dOut.done
    /\ dIn.fn = "pktline_build_want"
    /\ \E r \in {pktline_build_want(dIn.sha, junk)} :
        dOut' = [done |-> TRUE, rc |-> r.rc, body |-> r.body,
                 out_len |-> r.out_len]
    /\ UNCHANGED <<fs, pc, pack, pos, idx, written, ret, dIn, heap, cwd>>

InitPkt ==
    /\ fs = InitFs
    /\ pc = "idle"
    /\ pack = <<>>
    /\ pos = 0
    /\ idx = 0
    /\ written = <<>>
    /\ ret = NoCall
    /\ dIn \in PktInputs
    /\ dOut = NoDeltaResult
    /\ heap = {}
    /\ cwd = "original_dir"

NextPkt ==
    \/ PktlineParseHead
    \/ PktlineStripSideband
    \/ \E junk \in JunkBytes : PktlineBuildWant(junk)

SpecPkt == InitPkt /\ [][NextPkt]_vars

----------------------------------------------------------------------------
(* Checkout of a tree into the working directory (clone.c).  Names are      *)
(* shorter than the arrays they are copied to (mode[16], name[256]) and     *)
(* paths shorter than GIT_PATH_MAX.                                         *)

\* a buffer read as a C string: the bytes before its first NUL
CStr(s) ==
    IF memchr(s, 0, 1, Len(s)) = 0 THEN s ELSE Take(s, memchr(s, 0, 1, Len(s)) - 1)

Mode40000 == <<52, 48, 48, 48, 48>>                               \* "40000"

\* the file a path names, seen from the working directory "."
Resolve(path) == IF StartsWith(path, <<46, 47>>) THEN Drop(path, 2) ELSE path

\* io names one path and what the environment does to a write of it
IoAt(io, path) == IF Resolve(path) = io.path THEN io.how ELSE "ok"

RECURSIVE checkout_tree(_, _, _, _)
RECURSIVE checkout_loop(_, _, _, _, _)

\* r is what the entry did; pos = sha_bin + 20 and the next pass
checkout_next(r, body, next, dir, io) ==
    IF r.rc # 0 THEN [rc |-> 1, fs |-> r.fs]
    ELSE checkout_loop(r.fs, body, next, dir, io)

\* a file entry whose write takes the whole object for the body
checkout_blob_raw(f, blob, path, io) ==
    IF blob.rc # 0 THEN [rc |-> 1, fs |-> f]
    ELSE write_file(f, Resolve(path), blob.raw, Len(blob.raw), "wb",
                    IoAt(io, path))

\* a file entry: blob is what object_read returned
checkout_blob(f, blob, path, io) ==
    IF blob.rc # 0 THEN [rc |-> 1, fs |-> f]
    ELSE write_file(f, Resolve(path), blob.body, blob.body_size, "wb",
                    IoAt(io, path))

\* a directory entry: m is what mkdir returned
checkout_dir(m, sha_hex, path, io) ==
    IF m.rc = -1 THEN [rc |-> 1, fs |-> m.fs]
    ELSE checkout_tree(m.fs, sha_hex, path, io)

checkout_entry(f, mode, sha_hex, path, io) ==
    IF CStr(mode) = Mode40000
    THEN checkout_dir(mkdir(f, Resolve(path)), sha_hex, path, io)
    ELSE checkout_blob(f, object_read(f, sha_hex), path, io)

\* space and name_end are 1-based indexes into body, 0 for NULL
checkout_named(f, body, p, space, name_end, dir, io) ==
    IF name_end = 0 THEN [rc |-> 0, fs |-> f]
    ELSE IF name_end + 20 > Len(body) THEN [rc |-> 0, fs |-> f]
    ELSE checkout_next(
            checkout_entry(f, SubSeq(body, p + 1, space - 1),
                hex_to_string(SubSeq(body, name_end + 1, name_end + 20), 20),
                dir \o <<47>> \o SubSeq(body, space + 1, name_end - 1), io),
            body, name_end + 20, dir, io)

checkout_spaced(f, body, p, space, dir, io) ==
    IF space = 0 THEN [rc |-> 0, fs |-> f]
    ELSE checkout_named(f, body, p, space,
                        memchr(body, 0, space + 1, Len(body)), dir, io)

\* while (pos < end), p = pos - obj.body
checkout_loop(f, body, p, dir, io) ==
    IF p >= Len(body) THEN [rc |-> 0, fs |-> f]
    ELSE checkout_spaced(f, body, p, memchr(body, 32, p + 1, Len(body)),
                         dir, io)

checkout_read(f, obj, dir, io) ==
    IF obj.rc # 0 THEN [rc |-> 1, fs |-> f]
    ELSE checkout_loop(f, Take(obj.body, obj.body_size), 0, dir, io)

checkout_tree(f, tree_sha, dir, io) ==
    checkout_read(f, object_read(f, tree_sha), dir, io)

----------------------------------------------------------------------------
(* checkout_tree on its own: one call on a store that holds the tree.       *)
(* checkout_tree reads objects by identifier and never hashes, so the       *)
(* objects of these stores are named by short digests.                      *)

MaxEntries == 3

Digest(n) == [i \in 1..SHA_DIGEST_LENGTH |-> IF i = 1 THEN n ELSE 0]

\* one entry of a tree body: <mode> <name>\0<20-byte binary SHA>
TreeEntry(mode, name, digest) == mode \o <<32>> \o name \o <<0>> \o digest

\* the store with the object at the path of its identifier
StoreObject(f, digest, object_data) ==
    SetFile([f EXCEPT !.dirs = @ \cup
                {object_path(hex_to_string(digest, SHA_DIGEST_LENGTH)).abs_dir}],
            object_path(hex_to_string(digest, SHA_DIGEST_LENGTH)).abs_file,
            compress_data(object_data, Len(object_data)).data)

Mode100644 == <<49, 48, 48, 54, 52, 52>>                          \* "100644"
Mode100755 == <<49, 48, 48, 55, 53, 53>>                          \* "100755"
Mode120000 == <<49, 50, 48, 48, 48, 48>>                          \* "120000"

BlobEmpty == frame_object(StrBlob, <<>>, 0)                       \* "blob 0\0"

DigestHi      == Digest(1)
DigestEmpty   == Digest(2)
DigestMissing == Digest(3)
DigestSub     == Digest(4)
DigestNested  == Digest(5)
DigestRoot    == Digest(9)

\* the tree with the file "a"
TreeSub == TreeEntry(Mode100644, <<97>>, DigestHi)
\* the tree with the directory "d" (TreeSub) and the file "c"
TreeNested ==
    TreeEntry(Mode40000, <<100>>, DigestSub)
    \o TreeEntry(Mode100644, <<99>>, DigestHi)

File(path, bytes) == [path |-> path, isdir |-> FALSE, bytes |-> bytes]
Dir(path) == [path |-> path, isdir |-> TRUE, bytes |-> <<>>]

\* entries a root tree is made of: the bytes of the entry, its name, whether
\* it is complete, and what walking it names (paths below the root)
TreeChoices ==
    { [name |-> <<97>>, ok |-> TRUE,
       bytes |-> TreeEntry(Mode100644, <<97>>, DigestHi),
       expect |-> {File(<<97>>, <<104, 105>>)}],
      [name |-> <<98>>, ok |-> TRUE,
       bytes |-> TreeEntry(Mode100755, <<98>>, DigestEmpty),
       expect |-> {File(<<98>>, <<>>)}],
      [name |-> <<100>>, ok |-> TRUE,
       bytes |-> TreeEntry(Mode40000, <<100>>, DigestSub),
       expect |-> {Dir(<<100>>), File(<<100, 47, 97>>, <<104, 105>>)}],
      [name |-> <<101>>, ok |-> TRUE,
       bytes |-> TreeEntry(Mode40000, <<101>>, DigestNested),
       expect |-> {Dir(<<101>>), Dir(<<101, 47, 100>>),
                   File(<<101, 47, 100, 47, 97>>, <<104, 105>>),
                   File(<<101, 47, 99>>, <<104, 105>>)}],
      [name |-> <<97>>, ok |-> TRUE,
       bytes |-> TreeEntry(Mode100644, <<97>>, DigestEmpty),
       expect |-> {File(<<97>>, <<>>)}],
      [name |-> <<109>>, ok |-> TRUE,
       bytes |-> TreeEntry(Mode100644, <<109>>, DigestMissing),
       expect |-> {File(<<109>>, <<>>)}],
      [name |-> <<108>>, ok |-> TRUE,
       bytes |-> TreeEntry(Mode120000, <<108>>, DigestHi),
       expect |-> {File(<<108>>, <<104, 105>>)}],
      [name |-> <<122>>, ok |-> FALSE,
       bytes |-> Take(TreeEntry(Mode100644, <<122>>, DigestHi), 14),
       expect |-> {}] }

\* the framed tree object of a sequence of entries
TreeObject(entries) ==
    frame_object(StrTree, Concat([i \in 1..Len(entries) |-> entries[i].bytes]),
                 Len(Concat([i \in 1..Len(entries) |-> entries[i].bytes])))

\* ".." names the directory above the working directory, which exists
DotDot == <<46, 46>>

\* the repository with the blobs, the two sub-trees and the root tree
CheckoutStore(entries) ==
    StoreObject(
      StoreObject(
        StoreObject(
          StoreObject(
            StoreObject([InitFs EXCEPT !.dirs = @ \cup {DotDot}],
                        DigestHi, BlobHi),
            DigestEmpty, BlobEmpty),
          DigestSub, frame_object(StrTree, TreeSub, Len(TreeSub))),
        DigestNested, frame_object(StrTree, TreeNested, Len(TreeNested))),
      DigestRoot, TreeObject(entries))

NoIoFault == [path |-> <<>>, how |-> "ok"]

CheckoutFaults ==
    { NoIoFault,
      [path |-> <<97>>, how |-> "open_fails"],
      [path |-> <<101, 47, 99>>, how |-> "short_write"] }

MaxDotted == 2

\* entries whose name holds a slash or "..": the file "../x", the directory
\* "../o" (TreeSub), the directory ".." and the file "d/x"
DottedChoices ==
    { [name |-> <<46, 46, 47, 120>>, ok |-> TRUE,
       bytes |-> TreeEntry(Mode100644, <<46, 46, 47, 120>>, DigestHi),
       expect |-> {File(<<46, 46, 47, 120>>, <<104, 105>>)}],
      [name |-> <<46, 46, 47, 111>>, ok |-> TRUE,
       bytes |-> TreeEntry(Mode40000, <<46, 46, 47, 111>>, DigestSub),
       expect |-> {Dir(<<46, 46, 47, 111>>),
                   File(<<46, 46, 47, 111, 47, 97>>, <<104, 105>>)}],
      [name |-> DotDot, ok |-> TRUE,
       bytes |-> TreeEntry(Mode40000, DotDot, DigestSub),
       expect |-> {Dir(DotDot), File(<<46, 46, 47, 97>>, <<104, 105>>)}],
      [name |-> <<100, 47, 120>>, ok |-> TRUE,
       bytes |-> TreeEntry(Mode100644, <<100, 47, 120>>, DigestHi),
       expect |-> {File(<<100, 47, 120>>, <<104, 105>>)}],
      [name |-> <<100>>, ok |-> TRUE,
       bytes |-> TreeEntry(Mode40000, <<100>>, DigestSub),
       expect |-> {Dir(<<100>>), File(<<100, 47, 97>>, <<104, 105>>)}] }

CheckoutInputs ==
    { [fn |-> "checkout_tree", entries |-> es,
       tree_sha |-> hex_to_string(DigestRoot, SHA_DIGEST_LENGTH), io |-> io] :
        es \in SeqsUpTo(TreeChoices, MaxEntries), io \in CheckoutFaults }
    \cup
    { [fn |-> "checkout_tree", entries |-> es,
       tree_sha |-> hex_to_string(DigestRoot, SHA_DIGEST_LENGTH),
       io |-> NoIoFault] : es \in SeqsUpTo(DottedChoices, MaxDotted) }

CheckoutTree ==
    /\ ~dOut.done
    /\ dIn.fn = "checkout_tree"
    /\ \E r \in {checkout_tree(fs, dIn.tree_sha, <<46>>, dIn.io)} :
        /\ fs' = r.fs
        /\ dOut' = [done |-> TRUE, rc |-> r.rc]
    /\ UNCHANGED <<pc, pack, pos, idx, written, ret, dIn, heap, cwd>>

InitCheckout ==
    /\ dIn \in CheckoutInputs
    /\ fs = CheckoutStore(dIn.entries)
    /\ pc = "idle"
    /\ pack = <<>>
    /\ pos = 0
    /\ idx = 0
    /\ written = <<>>
    /\ ret = NoCall
    /\ dOut = NoDeltaResult
    /\ heap = {}
    /\ cwd = "original_dir"

NextCheckout == CheckoutTree

SpecCheckout == InitCheckout /\ [][NextCheckout]_vars

----------------------------------------------------------------------------
(* HTTP client (http.c).  The server and libcurl are a scenario: whether    *)
(* curl_easy_init gives a handle, the chunks curl_easy_perform hands to the *)
(* write callback, the code it returns after them and the response code.    *)
(* An HttpResponse is [data, size, allocated]; allocated tells data from    *)
(* NULL.                                                                    *)

NoResponse == [data |-> <<>>, size |-> 0, allocated |-> FALSE]

\* realloc to size + chunk_size + 1, memcpy, the NUL behind the last byte
write_callback(chunk, elem_size, count, resp) ==
    [data |-> resp.data \o Take(chunk, elem_size * count),
     size |-> resp.size + (elem_size * count), allocated |-> TRUE]

RECURSIVE curl_easy_perform(_, _, _)
\* the transfer: the write callback once per chunk, from chunk number k on
curl_easy_perform(server, k, resp) ==
    IF k > Len(server.chunks) THEN resp
    ELSE curl_easy_perform(server, k + 1,
            write_callback(server.chunks[k], 1, Len(server.chunks[k]), resp))

\* resp is the response after curl_easy_perform
perform_and_cleanup(server, resp) ==
    IF server.res # "CURLE_OK" THEN [rc |-> 1, resp |-> resp]
    ELSE IF server.http_code # 200 THEN [rc |-> 1, resp |-> resp]
    ELSE [rc |-> 0, resp |-> resp]

http_get_refs(server) ==
    IF ~server.init THEN [rc |-> 1, resp |-> NoResponse]
    ELSE perform_and_cleanup(server, curl_easy_perform(server, 1, NoResponse))

\* the header list is built and freed inside the call
http_post_pack(server, body, body_len) ==
    IF ~server.init THEN [rc |-> 1, resp |-> NoResponse]
    ELSE perform_and_cleanup(server, curl_easy_perform(server, 1, NoResponse))

http_response_free(resp) == NoResponse

----------------------------------------------------------------------------
(* clone_repo (clone.c), one step of its pipeline per action.  The          *)
(* filesystem is the target directory, which clone_repo creates and makes   *)
(* the working directory; getcwd and chdir succeed.                         *)

\* init_git: m is what the mkdir of GIT_OBJECTS_DIR returned; then .git/HEAD
init_git_head(m, io) ==
    IF m.rc = -1 \/ io = "open_fails" THEN [rc |-> 1, fs |-> m.fs]
    ELSE [rc |-> 0, fs |-> SetFile(m.fs, HEAD_FILE, HEAD_TEXT)]

\* m is what the mkdir of GIT_REFS_DIR returned
init_git_objects(m, io) ==
    IF m.rc = -1 THEN [rc |-> 1, fs |-> m.fs]
    ELSE init_git_head(mkdir(m.fs, GIT_OBJECTS_DIR), io)

\* m is what the mkdir of GIT_ROOT_DIR returned
init_git_refs(m, io) ==
    IF m.rc = -1 THEN [rc |-> 1, fs |-> m.fs]
    ELSE init_git_objects(mkdir(m.fs, GIT_REFS_DIR), io)

init_git(f, io) == init_git_refs(mkdir(f, GIT_ROOT_DIR), io)

StrTreeSp == StrTree \o <<32>>                                    \* "tree "

\* obj is what object_read of the commit returned
get_tree_sha_of(obj) ==
    IF obj.rc # 0 THEN [rc |-> 1, tree_sha |-> <<>>]
    ELSE IF obj.body_size < 45 \/ ~StartsWith(obj.body, StrTreeSp)
    THEN [rc |-> 1, tree_sha |-> <<>>]
    ELSE [rc |-> 0, tree_sha |-> SubSeq(obj.body, 6, 45)]

get_tree_sha(f, commit_sha) == get_tree_sha_of(object_read(f, commit_sha))

RECURSIVE packfile_parse_loop(_, _, _, _, _, _, _, _)
\* r is what the pass of the loop over record i did
packfile_parse_pass(r, data, len, i, n, io, junk) ==
    IF r.rec.rc # 0 THEN [rc |-> 1, fs |-> r.fs]
    ELSE packfile_parse_loop(r.fs, data, len, r.pos, i + 1, n, io, junk)

\* for (i = 0; i < obj_count; i++), n = obj_count
packfile_parse_loop(f, data, len, p, i, n, io, junk) ==
    IF i >= n THEN [rc |-> 0, fs |-> f]
    ELSE packfile_parse_pass(pack_record(f, data, len, p, io, junk),
                             data, len, i, n, io, junk)

packfile_parse(f, data, len, io, junk) ==
    IF pack_header_error(data, len) # "" THEN [rc |-> 1, fs |-> f]
    ELSE packfile_parse_loop(f, data, len, 12, 0, read_uint32_be(data, 8),
                             io, junk)

\* step 6 of clone_repo: t is what get_tree_sha returned
clone_checkout(f, t, io) ==
    IF t.rc # 0 THEN [rc |-> 1, fs |-> f]
    ELSE checkout_tree(f, CStr(t.tree_sha), <<46>>, io)

\* where clone_repo goes on after a step that returned step_rc, although it
\* failed
clone_goes_on(step_rc, next) == next

\* where clone_repo goes on after a step that returned step_rc
clone_after(step_rc, next) == IF step_rc # 0 THEN "returned" ELSE next

\* the locals of clone_repo before its first step
CloneLocals ==
    [op |-> "clone_repo", rc |-> -1, step_rc |-> 0, head_sha |-> <<>>,
     want_body |-> <<>>, want_len |-> 0, resp |-> NoResponse]

\* the return value after a step: 1 when it failed, 0 after the last step
clone_rc(step_rc, last) == IF step_rc # 0 THEN 1 ELSE IF last THEN 0 ELSE -1

\* the heap with the buffer of the name in it or not
Alloc(h, name, live) == IF live THEN h \cup {name} ELSE h \ {name}

CloneInit ==
    /\ pc = "clone_repo"
    /\ \E r \in {IF dIn.dir_exists THEN [rc |-> 1, fs |-> fs]
                 ELSE init_git(fs, dIn.init_io)} :
        /\ fs' = r.fs
        /\ pc' = clone_after(r.rc, "http_get_refs")
        /\ cwd' = IF dIn.dir_exists THEN cwd ELSE "dir"
        /\ ret' = [ret EXCEPT !.step_rc = r.rc, !.rc = clone_rc(r.rc, FALSE)]
    /\ UNCHANGED <<pack, pos, idx, written, dIn, dOut, heap>>

\* http_get_refs, pktline_parse_head, http_response_free; the return after
\* a failed http_get_refs frees nothing
CloneGetRefs ==
    /\ pc = "http_get_refs"
    /\ \E h \in {http_get_refs(dIn.refs)} :
       \E r \in {IF h.rc # 0 THEN [rc |-> 1, sha |-> <<>>]
                 ELSE pktline_parse_head(h.resp.data, h.resp.size)} :
        /\ pc' = clone_after(r.rc, "http_post_pack")
        /\ heap' = Alloc(heap, "refs_resp.data", h.rc # 0 /\ h.resp.allocated)
        /\ ret' = [ret EXCEPT !.step_rc = r.rc, !.rc = clone_rc(r.rc, FALSE),
                              !.head_sha = CStr(r.sha),
                              !.resp = IF h.rc # 0 THEN h.resp ELSE NoResponse]
    /\ UNCHANGED <<fs, pack, pos, idx, written, dIn, dOut, cwd>>

\* pktline_build_want, http_post_pack, free(want_body)
ClonePostPack(junk) ==
    /\ pc = "http_post_pack"
    /\ \E w \in {pktline_build_want(ret.head_sha, junk)} :
       \E h \in {IF w.rc # 0 THEN [rc |-> 1, resp |-> NoResponse]
                 ELSE http_post_pack(dIn.post, w.body, w.out_len)} :
        /\ pc' = clone_after(h.rc, "pktline_strip_sideband")
        /\ heap' = Alloc(heap, "pack_resp.data", h.resp.allocated)
        /\ ret' = [ret EXCEPT !.step_rc = h.rc, !.rc = clone_rc(h.rc, FALSE),
                              !.want_body = w.body, !.want_len = w.out_len,
                              !.resp = h.resp]
    /\ UNCHANGED <<fs, pack, pos, idx, written, dIn, dOut, cwd>>

\* pktline_strip_sideband, http_response_free
CloneStripSideband ==
    /\ pc = "pktline_strip_sideband"
    /\ \E r \in {pktline_strip_sideband(ret.resp.data, ret.resp.size)} :
        /\ pc' = clone_after(r.rc, "packfile_parse")
        /\ pack' = r.pack
        /\ heap' = Alloc(Alloc(heap, "pack_resp.data", FALSE),
                         "pack_data", r.rc = 0)
        /\ ret' = [ret EXCEPT !.step_rc = r.rc, !.rc = clone_rc(r.rc, FALSE),
                              !.resp = http_response_free(ret.resp)]
    /\ UNCHANGED <<fs, pos, idx, written, dIn, dOut, cwd>>

\* packfile_parse, free(pack_data)
ClonePackfileParse(junk) ==
    /\ pc = "packfile_parse"
    /\ \E r \in {packfile_parse(fs, pack, Len(pack), dIn.pack_io, junk)} :
        /\ fs' = r.fs
        /\ pc' = clone_after(r.rc, "checkout_tree")
        /\ heap' = Alloc(heap, "pack_data", FALSE)
        /\ ret' = [ret EXCEPT !.step_rc = r.rc, !.rc = clone_rc(r.rc, FALSE)]
    /\ UNCHANGED <<pack, pos, idx, written, dIn, dOut, cwd>>

\* get_tree_sha, checkout_tree, chdir(original_dir); the returns before the
\* chdir leave the working directory where it is
CloneCheckout ==
    /\ pc = "checkout_tree"
    /\ \E r \in {clone_checkout(fs, get_tree_sha(fs, ret.head_sha),
                                dIn.checkout_io)} :
        /\ fs' = r.fs
        /\ pc' = clone_after(r.rc, "returned")
        /\ cwd' = IF r.rc = 0 THEN "original_dir" ELSE cwd
        /\ ret' = [ret EXCEPT !.step_rc = r.rc, !.rc = clone_rc(r.rc, TRUE)]
    /\ UNCHANGED <<pack, pos, idx, written, dIn, dOut, heap>>

----------------------------------------------------------------------------
(* Inputs of clone_repo: the remote repository, the two servers, whether    *)
(* the target directory exists, and what the environment does to writes.    *)

\* the remote repository: a commit, its tree with the file "a", the blob "hi"
RemoteTreeBody == TreeEntry(Mode100644, <<97>>, SHA1(BlobHi))
RemoteTree == frame_object(StrTree, RemoteTreeBody, Len(RemoteTreeBody))
RemoteCommitBody == StrTreeSp \o ObjectId(RemoteTree) \o <<10>>
RemoteCommit ==
    frame_object(StrCommit, RemoteCommitBody, Len(RemoteCommitBody))
HeadId == ObjectId(RemoteCommit)

RecCommit ==
    PackRecordBytes(OBJ_COMMIT, Len(RemoteCommitBody), <<>>, RemoteCommitBody)
RecTree == PackRecordBytes(OBJ_TREE, Len(RemoteTreeBody), <<>>, RemoteTreeBody)

PackOf(version, records) ==
    PackHeader(StrPACK, version, Len(records)) \o Concat(records)

\* an upload-pack response with the pack on channel 1 in two lines
SideBand(image) ==
    PieceBytes(<<PktLine(<<78, 65, 75, 10>>), PktLine(<<2, 104, 105>>),
                 PktLine(<<1>> \o Take(image, 20)),
                 PktLine(<<1>> \o Drop(image, 20)), PktFlush>>)

\* a server that answers 200 with the body in two chunks
Answers(body) ==
    [init |-> TRUE, res |-> "CURLE_OK", http_code |-> 200,
     chunks |-> <<Take(body, Len(body) \div 2), Drop(body, Len(body) \div 2)>>]

\* servers whose request fails: no handle, no connection, a transfer that
\* breaks off after a chunk, a 404 with a body
FailingServers(body) ==
    { [init |-> FALSE, res |-> "CURLE_OK", http_code |-> 200, chunks |-> <<>>],
      [init |-> TRUE, res |-> "CURLE_COULDNT_CONNECT", http_code |-> 0,
       chunks |-> <<>>],
      [init |-> TRUE, res |-> "CURLE_RECV_ERROR", http_code |-> 200,
       chunks |-> <<Take(body, Len(body) \div 2)>>],
      [init |-> TRUE, res |-> "CURLE_OK", http_code |-> 404,
       chunks |-> <<<<78, 111>>>>] }

RefsAdvert ==
    PieceBytes(<<PktLine(<<35, 10>>), PktFlush,
                 PktLine(HeadId \o <<32, 72, 69, 65, 68, 10>>), PktFlush>>)

RefsServers ==
    { Answers(RefsAdvert),
      Answers(PieceBytes(<<PktLine(<<35, 10>>), PktFlush>>)),
      [init |-> TRUE, res |-> "CURLE_OK", http_code |-> 200, chunks |-> <<>>] }
    \cup FailingServers(RefsAdvert)

PostServers ==
    { Answers(SideBand(PackOf(2, <<RecCommit, RecTree, RecBlobHi>>))),
      Answers(PieceBytes(<<PktLine(<<78, 65, 75, 10>>)>>)
              \o PackOf(2, <<RecCommit, RecTree, RecBlobHi>>)),
      Answers(PieceBytes(<<PktLine(<<78, 65, 75, 10>>)>>)),
      Answers(SideBand(PackOf(3, <<RecCommit, RecTree, RecBlobHi>>))),
      Answers(SideBand(PackOf(2, <<RecCommit, RecTree>>))),
      Answers(SideBand(PackOf(2, <<RecTree, RecBlobHi>>))) }
    \cup FailingServers(SideBand(PackOf(2, <<RecCommit, RecTree, RecBlobHi>>)))

\* the target directory before clone_repo has made it
NoFs == [files |-> [p \in {} |-> <<>>], dirs |-> {}]

CloneInputs ==
    { [fn |-> "clone_repo", dir_exists |-> e, refs |-> r, post |-> p,
       init_io |-> i, pack_io |-> k, checkout_io |-> c] :
        e \in BOOLEAN, r \in RefsServers, p \in PostServers,
        i \in {"ok", "open_fails"}, k \in IoOutcomes,
        c \in {NoIoFault, [path |-> <<97>>, how |-> "short_write"]} }

InitClone ==
    /\ dIn \in CloneInputs
    /\ fs = NoFs
    /\ pc = "clone_repo"
    /\ pack = <<>>
    /\ pos = 0
    /\ idx = 0
    /\ written = <<>>
    /\ ret = CloneLocals
    /\ dOut = NoDeltaResult
    /\ heap = {}
    /\ cwd = "original_dir"

NextClone ==
    \/ CloneInit
    \/ CloneGetRefs
    \/ \E junk \in JunkBytes : ClonePostPack(junk)
    \/ CloneStripSideband
    \/ \E junk \in JunkBytes : ClonePackfileParse(junk)
    \/ CloneCheckout

SpecClone == InitClone /\ [][NextClone]_vars

----------------------------------------------------------------------------
(* write-tree (write_tree.c).  readdir hands out the names of a directory   *)
(* in an order of its own: order is a sequence of all names, and a          *)
(* directory is listed in the order its names have in it.  specials are the *)
(* paths of files that are neither regular files nor directories.  opendir  *)
(* and stat succeed.                                                        *)

StrDot    == <<46>>                                               \* "."
StrDotDot == <<46, 46>>                                           \* ".."

\* the directory part of a resolved path, "." for a name of the working
\* directory, and its last component
DirOf(path) ==
    IF LastSlash(path) = 0 THEN StrDot ELSE Take(path, LastSlash(path) - 1)
BaseName(path) == Drop(path, LastSlash(path))

\* the names readdir finds in dir_path, "." and ".." among them
DirNames(f, dir_path, specials) ==
    {StrDot, StrDotDot} \cup
    {BaseName(p) : p \in {q \in DOMAIN f.files \cup f.dirs \cup specials :
                            DirOf(q) = Resolve(dir_path)}}

readdir(f, dir_path, env) ==
    SelectSeq(env.order,
              LAMBDA n : n \in DirNames(f, dir_path, env.specials))

RECURSIVE strcmp(_, _)
\* strcmp of two C strings: -1, 0 or 1, bytes compared as unsigned char
strcmp(a, b) ==
    IF a = <<>> /\ b = <<>> THEN 0
    ELSE IF a = <<>> THEN -1
    ELSE IF b = <<>> THEN 1
    ELSE IF a[1] < b[1] THEN -1
    ELSE IF a[1] > b[1] THEN 1
    ELSE strcmp(Tail(a), Tail(b))

\* the comparator that orders by mode before name
compare_tree_entries_by_mode(a, b) ==
    IF a.mode # b.mode THEN strcmp(a.mode, b.mode) ELSE strcmp(a.name, b.name)

compare_tree_entries(a, b) == strcmp(a.name, b.name)

RECURSIVE qsort_insert(_, _)
qsort_insert(sorted, e) ==
    IF sorted = <<>> THEN <<e>>
    ELSE IF compare_tree_entries(e, Head(sorted)) < 0 THEN <<e>> \o sorted
    ELSE <<Head(sorted)>> \o qsort_insert(Tail(sorted), e)

RECURSIVE qsort(_)
\* qsort(entries, entry_count, sizeof(TreeEntry), compare_tree_entries)
qsort(entries) ==
    IF Len(entries) <= 1 THEN entries
    ELSE qsort_insert(qsort(Take(entries, Len(entries) - 1)),
                      entries[Len(entries)])

\* hex_string_to_bytes (string.h): the inverse of hex_to_string.  Its body
\* is not among the sources; it is modelled from its declaration and from
\* the hex codec of the specification: the string must have even length and
\* hold only the characters 0-9, a-f and A-F, or the result is NULL.
hex_string_to_bytes(hex_str) ==
    LET nibble(c) == IF c >= 48 /\ c <= 57 THEN c - 48
                     ELSE IF c >= 97 /\ c <= 102 THEN c - 87
                     ELSE IF c >= 65 /\ c <= 70 THEN c - 55
                     ELSE -1
    IN  IF Len(hex_str) % 2 = 1 \/ \E i \in 1..Len(hex_str) : nibble(hex_str[i]) = -1
        THEN [ok |-> FALSE, bytes |-> <<>>, out_len |-> 0]
        ELSE [ok |-> TRUE,
              bytes |-> [i \in 1..(Len(hex_str) \div 2) |->
                            (nibble(hex_str[(2 * i) - 1]) * 16)
                            + nibble(hex_str[2 * i])],
              out_len |-> Len(hex_str) \div 2]

\* file_content is what read_file returned
create_blob_of(f, file_content, io) ==
    IF ~file_content.ok THEN [ok |-> FALSE, sha |-> <<>>, fs |-> f]
    ELSE object_write(f,
            frame_object(StrBlob, file_content.data, Len(file_content.data)),
            Len(frame_object(StrBlob, file_content.data,
                             Len(file_content.data))), io)

create_blob(f, path, io) == create_blob_of(f, read_file(f, Resolve(path)), io)

\* one packed entry: <mode> <name>\0<20 raw SHA bytes>
pack_entry(e) ==
    e.mode \o <<32>> \o e.name \o <<0>>
    \o Take(hex_string_to_bytes(e.sha_hex).bytes, 20)

\* "tree <body_size>\0<packed entries>" of the sorted entries
tree_data_of(entries) ==
    frame_object(StrTree, Concat([i \in 1..Len(entries) |-> pack_entry(entries[i])]),
                 Len(Concat([i \in 1..Len(entries) |-> pack_entry(entries[i])])))

\* w is what object_write of tree_data returned; trees are the tree objects
\* written so far, each with the directory it was made from
write_tree_written(w, dir_path, tree_data, trees) ==
    [ok |-> w.ok, sha |-> w.sha, fs |-> w.fs,
     trees |-> IF w.ok THEN trees \cup {[dir |-> dir_path, data |-> tree_data]}
               ELSE trees]

write_tree_object(f, dir_path, tree_data, trees, io) ==
    write_tree_written(object_write(f, tree_data, Len(tree_data), io),
                       dir_path, tree_data, trees)

RECURSIVE write_tree_recursive(_, _, _, _, _)
RECURSIVE write_tree_scan(_, _, _, _, _, _, _, _)

\* r is the sha create_blob or the recursive call returned for listing[k]
write_tree_entry(r, mode, dir_path, listing, k, entries, trees, env, io) ==
    IF ~r.ok THEN [ok |-> FALSE, sha |-> <<>>, fs |-> r.fs, trees |-> trees]
    ELSE write_tree_scan(r.fs, dir_path, listing, k + 1,
            Append(entries, [mode |-> mode, name |-> listing[k],
                             sha_hex |-> r.sha]),
            trees, env, io)

\* r is what write_tree_recursive returned for the directory listing[k]
write_tree_subdir(r, dir_path, listing, k, entries, env, io) ==
    write_tree_entry(r, Mode40000, dir_path, listing, k, entries, r.trees,
                     env, io)

\* the pass of the readdir loop over listing[k], full_path its path
write_tree_stat(f, dir_path, full_path, listing, k, entries, trees, env, io) ==
    IF Resolve(full_path) \in DOMAIN f.files
    THEN write_tree_entry(create_blob(f, full_path, io), Mode100644,
                          dir_path, listing, k, entries, trees, env, io)
    ELSE IF Resolve(full_path) \in f.dirs
    THEN write_tree_subdir(
            write_tree_recursive(f, full_path, trees, env, io),
            dir_path, listing, k, entries, env, io)
    ELSE write_tree_scan(f, dir_path, listing, k + 1, entries, trees, env, io)

\* while ((dentry = readdir(dir)) != NULL), then the sort and the tree object
write_tree_scan(f, dir_path, listing, k, entries, trees, env, io) ==
    IF k > Len(listing)
    THEN write_tree_object(f, dir_path, tree_data_of(qsort(entries)), trees, io)
    ELSE IF listing[k] \in {StrDot, StrDotDot, GIT_ROOT_DIR}
    THEN write_tree_scan(f, dir_path, listing, k + 1, entries, trees, env, io)
    ELSE write_tree_stat(f, dir_path, dir_path \o <<47>> \o listing[k],
                         listing, k, entries, trees, env, io)

write_tree_recursive(f, dir_path, trees, env, io) ==
    write_tree_scan(f, dir_path, readdir(f, dir_path, env), 1, <<>>, trees,
                    env, io)

\* write_tree: 1 when write_tree_recursive(".") returned NULL
write_tree(f, env, io) == write_tree_recursive(f, StrDot, {}, env, io)

----------------------------------------------------------------------------
(* Inputs of write_tree: working directories of up to MaxNames items.       *)

MaxNames == 3

Item(dir, name, kind, bytes) ==
    [dir |-> dir, name |-> name, kind |-> kind, bytes |-> bytes,
     path |-> IF dir = StrDot THEN name ELSE Drop(dir, 2) \o <<47>> \o name]

DirD == <<46, 47, 100>>                                           \* "./d"

\* files "a", "ab", "B" and one whose name has bytes above 127, the
\* directory "d" with the files "d/a" and "d/B", and a socket "s"
TreeItems ==
    { Item(StrDot, <<97>>, "file", <<104, 105>>),
      Item(StrDot, <<97, 98>>, "file", <<>>),
      Item(StrDot, <<66>>, "file", <<120>>),
      Item(StrDot, <<195, 169>>, "file", <<104, 105>>),
      Item(StrDot, <<100>>, "dir", <<>>),
      Item(DirD, <<97>>, "file", <<104, 105>>),
      Item(DirD, <<66>>, "file", <<>>),
      Item(StrDot, <<115>>, "special", <<>>) }

\* sets of items in which a file below "d" comes with "d"
WorkTrees ==
    {s \in SUBSET TreeItems :
        /\ Cardinality(s) <= MaxNames
        /\ \A x \in s : x.dir = DirD =>
             \E y \in s : y.dir = StrDot /\ y.name = <<100>>}

\* the working directory with the items, next to the repository
WorkTreeFs(items) ==
    [files |-> [p \in DOMAIN InitFs.files
                      \cup {x.path : x \in {y \in items : y.kind = "file"}} |->
                  IF p \in DOMAIN InitFs.files THEN InitFs.files[p]
                  ELSE (CHOOSE x \in items : x.path = p).bytes],
     dirs |-> InitFs.dirs \cup {x.path : x \in {y \in items : y.kind = "dir"}}]

AllNames ==
    <<StrDot, <<97>>, GIT_ROOT_DIR, <<195, 169>>, <<100>>, StrDotDot, <<66>>,
      <<97, 98>>, <<115>>>>

\* the orders readdir may use: AllNames turned round by k, forwards or
\* backwards
Rotated(k, backwards) ==
    [i \in 1..Len(AllNames) |->
        AllNames[IF backwards
                 THEN ((k + Len(AllNames) - i) % Len(AllNames)) + 1
                 ELSE ((k + i) % Len(AllNames)) + 1]]

ReaddirOrders ==
    {Rotated(k, b) : k \in 0..(Len(AllNames) - 1), b \in BOOLEAN}

WriteTreeInputs ==
    { [fn |-> "write_tree", items |-> s, io |-> io] :
        s \in WorkTrees, io \in {"ok", "short_write"} }

WriteTree(order) ==
    /\ ~dOut.done
    /\ dIn.fn = "write_tree"
    /\ \E r \in {write_tree(fs,
                   [order |-> order,
                    specials |-> {x.path : x \in {y \in dIn.items :
                                                    y.kind = "special"}}],
                   dIn.io)} :
        /\ fs' = r.fs
        /\ dOut' = [done |-> TRUE, rc |-> IF r.ok THEN 0 ELSE 1,
                    sha |-> r.sha, trees |-> r.trees, order |-> order]
    /\ UNCHANGED <<pc, pack, pos, idx, written, ret, dIn, heap, cwd>>

InitTree ==
    /\ dIn \in WriteTreeInputs
    /\ fs = WorkTreeFs(dIn.items)
    /\ pc = "idle"
    /\ pack = <<>>
    /\ pos = 0
    /\ idx = 0
    /\ written = <<>>
    /\ ret = NoCall
    /\ dOut = NoDeltaResult
    /\ heap = {}
    /\ cwd = "original_dir"

NextTree == \E order \in ReaddirOrders : WriteTree(order)

SpecTree == InitTree /\ [][NextTree]_vars

----------------------------------------------------------------------------
(* Hex codec (string.c): hex_to_string and hex_string_to_bytes called one    *)
(* after the other, each on what the call before it returned.  ret.arg is    *)
(* the argument of the last call, ret.before the argument of the call before *)
(* it, and ret.kind tells whether the result is bytes, a string or NULL.     *)

MaxHexBytes == 2

\* bytes with a low and a high nibble of either sort
HexBytes == {0, 10, 175, 255}
\* the characters 0, 9, a, F and g
HexChars == {48, 57, 97, 70, 103}

HexInputs ==
    [kind : {"bytes"}, value : SeqsUpTo(HexBytes, MaxHexBytes)]
    \cup [kind : {"str"}, value : SeqsUpTo(HexChars, 2 * MaxHexBytes)]

\* what the next call is made on
InHand == IF ret.op = "init_git" THEN dIn ELSE [kind |-> ret.kind, value |-> ret.value]
LastArg == IF ret.op = "init_git" THEN <<>> ELSE ret.arg

HexToString ==
    /\ pc = "hex"
    /\ InHand.kind = "bytes"
    /\ ret' = [op |-> "hex_to_string", prev |-> ret.op, kind |-> "str",
               value |-> hex_to_string(InHand.value, Len(InHand.value)),
               arg |-> InHand.value, before |-> LastArg]
    /\ UNCHANGED <<fs, pc, pack, pos, idx, written, dIn, dOut, heap, cwd>>

HexStringToBytes ==
    /\ pc = "hex"
    /\ InHand.kind = "str"
    /\ \E r \in {hex_string_to_bytes(InHand.value)} :
         ret' = [op |-> "hex_string_to_bytes", prev |-> ret.op,
                 kind |-> IF r.ok THEN "bytes" ELSE "null",
                 value |-> r.bytes, arg |-> InHand.value, before |-> LastArg]
    /\ UNCHANGED <<fs, pc, pack, pos, idx, written, dIn, dOut, heap, cwd>>

InitHex ==
    /\ fs = InitFs
    /\ pc = "hex"
    /\ pack = <<>>
    /\ pos = 0
    /\ idx = 0
    /\ written = <<>>
    /\ ret = NoCall
    /\ dIn \in HexInputs
    /\ dOut = NoDeltaResult
    /\ heap = {}
    /\ cwd = "original_dir"

NextHex ==
    \/ HexToString
    \/ HexStringToBytes

SpecHex == InitHex /\ [][NextHex]_vars


----------------------------------------------------------------------------
(* object_read on stored objects of any framing.  object_write takes the    *)
(* bytes it is given ("already-formatted object data") and stores them      *)
(* under their SHA-1, so the store can hold bytes that are no framed object. *)

\* "blob 2\0hi", "tree 0\0", "tag 1\0A", and bytes that are no framed object:
\* "blob 2hi" (no NUL), "hi", "blob2\0hi" (no space), "\0hi", "blub 2\0hi"
\* and "Blob 2\0hi" (no kind word of the store), "blob x\0hi"
StoredImages ==
    { <<98, 108, 111, 98, 32, 50, 0, 104, 105>>,
      <<116, 114, 101, 101, 32, 48, 0>>,
      <<116, 97, 103, 32, 49, 0, 65>>,
      <<98, 108, 111, 98, 32, 50, 104, 105>>,
      <<104, 105>>,
      <<98, 108, 111, 98, 50, 0, 104, 105>>,
      <<0, 104, 105>>,
      <<98, 108, 117, 98, 32, 50, 0, 104, 105>>,
      <<66, 108, 111, 98, 32, 50, 0, 104, 105>>,
      <<98, 108, 111, 98, 32, 120, 0, 104, 105>> }

\* object_write of bytes of any framing
ObjectWriteImage(object_data, io) ==
    /\ pc = "idle"
    /\ \E w \in {object_write(fs, object_data, Len(object_data), io)} :
        /\ NumObjects(w.fs) <= MaxObjects
        /\ fs' = w.fs
        /\ ret' = [op |-> "object_write", data |-> object_data, io |-> io,
                   ok |-> w.ok, sha |-> w.sha, log |-> w.log]
    /\ UNCHANGED <<pc, pack, pos, idx, written, dIn, dOut, heap, cwd>>

InitRead == Init

NextRead ==
    \/ \E data \in StoredImages, io \in IoOutcomes : ObjectWriteImage(data, io)
    \/ \E data \in StoredImages : ObjectRead(ObjectId(data))

SpecRead == InitRead /\ [][NextRead]_vars


----------------------------------------------------------------------------
(* decompress_data, one pass of its loop per step.  The compressed input is  *)
(* given by its length and by what inflating it to the end yields: a stream  *)
(* of a few bytes that holds long matches inflates to many times its length, *)
(* which the stored blocks of Deflate never do.  pos is dest_size.           *)

MaxRetries == 3

\* n bytes that inflate to m bytes and then end, are malformed or are cut off
Stream(n, status, m) ==
    [size |-> n, z |-> [status |-> status, out |-> [i \in 1..m |-> 0]]]

\* output lengths at, next to and between the buffer sizes of the passes
InflatedLens(n) ==
    {0, 1, 5 * n} \cup UNION {{(8 * n * (2 ^ k)) - 1, 8 * n * (2 ^ k), (8 * n * (2 ^ k)) + 1} :
                        k \in 0..(MaxRetries - 1)}

InflateInputs ==
    {Stream(0, "trunc", 0)}
    \cup {Stream(n, "trunc", 0) : n \in {1, 2}}
    \cup UNION {{Stream(n, st, m) : st \in {"end", "data", "trunc"},
                                    m \in InflatedLens(n)} : n \in {11, 12, 20}}

\* "uLongf dest_size = compressed_data_size * 8;"
DecompressData ==
    /\ pc = "decompress_data"
    /\ pos' = dIn.size * 8
    /\ pc' = "loop"
    /\ UNCHANGED <<fs, pack, idx, written, ret, dIn, dOut, heap, cwd>>

\* one pass of "while (1)"
DecompressPass ==
    /\ pc = "loop"
    /\ \E s \in {decompress_step(pos, uncompress_code(dIn.z, pos))} :
        /\ pc' = s.pc
        /\ pos' = s.dest_size
        /\ ret' = IF s.pc = "returned"
                  THEN [op |-> "decompress_data", ok |-> s.ok, data |-> s.data,
                        result |-> uncompress_code(dIn.z, pos).result]
                  ELSE ret
    /\ UNCHANGED <<fs, pack, idx, written, dIn, dOut, heap, cwd>>

InitInflate ==
    /\ fs = InitFs
    /\ pc = "decompress_data"
    /\ pack = <<>>
    /\ pos = 0
    /\ idx = 0
    /\ written = <<>>
    /\ ret = NoCall
    /\ dIn \in InflateInputs
    /\ dOut = NoDeltaResult
    /\ heap = {}
    /\ cwd = "original_dir"

NextInflate ==
    \/ DecompressData
    \/ DecompressPass

\* decompress_data is sequential code: while it has not returned it takes
\* its next step
SpecInflate == InitInflate /\ [][NextInflate]_vars /\ WF_vars(NextInflate)


----------------------------------------------------------------------------
(* checkout_tree's parsing of one tree body, one loop pass per action, with *)
(* the two stack buffers the pass copies into.  dIn is the body, pos is     *)
(* pos - obj.body, ret holds what the last pass copied.  A memcpy of more   *)
(* bytes than the buffer holds, or the terminator behind it, is undefined:  *)
(* the build either runs on with the bytes it parsed or the process dies.   *)

MODE_SIZE == 16                                                   \* char mode[16]
NAME_SIZE == 256                                                  \* char name[256]

MaxParsed == 2

\* one pass over the entry at offset p: space and name_end are 1-based
\* indexes into body, 0 for NULL; a length of -1 is a memcpy never reached
parse_entry(body, p) ==
    LET space == memchr(body, 32, p + 1, Len(body))
        name_end == IF space = 0 THEN 0
                    ELSE memchr(body, 0, space + 1, Len(body))
    IN  [mode_len |-> IF space = 0 THEN -1 ELSE space - 1 - p,
         name_len |-> IF name_end = 0 THEN -1 ELSE name_end - 1 - space,
         entry    |-> name_end # 0 /\ name_end + 20 <= Len(body),
         next     |-> name_end + 20]

\* the bytes a pass writes into its buffer: the copy and the terminator
copied(len) == len + 1

ParseModes ==
    { Mode100644, Mode40000,
      [i \in 1..15 |-> 49], [i \in 1..16 |-> 49], [i \in 1..17 |-> 49] }

ParseNames ==
    { <<97>>, [i \in 1..255 |-> 110], [i \in 1..256 |-> 110] }

\* whole entries, and the three ways an entry is cut short
ParseChoices ==
    { TreeEntry(m, n, DigestHi) : m \in ParseModes, n \in ParseNames }
    \cup { <<49, 48>>,
           Mode100644 \o <<32, 122>>,
           Take(TreeEntry(Mode100644, <<122>>, DigestHi), 14) }

ParseInputs ==
    { Concat(es) : es \in SeqsUpTo(ParseChoices, MaxParsed) }

NoPass == [op |-> "checkout_tree", mode_len |-> -1, name_len |-> -1,
           entry |-> FALSE]

\* while (pos < end)
CheckoutWhile ==
    /\ pc = "while"
    /\ pc' = IF pos < Len(dIn) THEN "parse" ELSE "returned"
    /\ UNCHANGED <<fs, pack, pos, idx, written, ret, dIn, dOut, heap, cwd>>

\* the body of the loop up to the 20-byte SHA
CheckoutParse ==
    /\ pc = "parse"
    /\ \E r \in {parse_entry(dIn, pos)} :
        /\ ret' = [op |-> "checkout_tree", mode_len |-> r.mode_len,
                   name_len |-> r.name_len, entry |-> r.entry]
        /\ \/ /\ pc' = IF r.entry THEN "while" ELSE "returned"
              /\ pos' = IF r.entry THEN r.next ELSE pos
           \/ /\ copied(r.mode_len) > MODE_SIZE \/ copied(r.name_len) > NAME_SIZE
              /\ pc' = "crashed"
              /\ pos' = pos
    /\ UNCHANGED <<fs, pack, idx, written, dIn, dOut, heap, cwd>>

InitParse ==
    /\ dIn \in ParseInputs
    /\ fs = InitFs
    /\ pc = "while"
    /\ pack = <<>>
    /\ pos = 0
    /\ idx = 0
    /\ written = <<>>
    /\ ret = NoPass
    /\ dOut = NoDeltaResult
    /\ heap = {}
    /\ cwd = "original_dir"

NextParse == CheckoutWhile \/ CheckoutParse

SpecParse == InitParse /\ [][NextParse]_vars

----------------------------------------------------------------------------
(* Properties *)

HexValue(c) ==
    IF c >= 48 /\ c <= 57 THEN c - 48
    ELSE IF c >= 97 /\ c <= 102 THEN c - 87 ELSE -1

\* str is the lowercase hex of bytes, two digits a byte
IsLowerHexOf(str, bytes) ==
    /\ Len(str) = 2 * Len(bytes)
    /\ \A i \in 1..Len(bytes) :
        /\ HexValue(str[2 * i - 1]) >= 0
        /\ HexValue(str[2 * i]) >= 0
        /\ 16 * HexValue(str[2 * i - 1]) + HexValue(str[2 * i]) = bytes[i]

\* ".git/objects/" + id[0:2]
ExpectedDir(id) ==
    <<46, 103, 105, 116, 47, 111, 98, 106, 101, 99, 116, 115, 47>>
    \o SubSeq(id, 1, 2)
\* ".git/objects/" + id[0:2] + "/" + id[2:40]
ExpectedPath(id) == ExpectedDir(id) \o <<47>> \o SubSeq(id, 3, 40)

\* the word before the first space of a header
HeaderKind(raw) == Take(raw, memchr(raw, 32, 1, Len(raw)) - 1)

\* C1: after an object_write of the framed bytes "<K> <|B|>\0<B>" that the
\* filesystem lets through, the write has succeeded and object_read of the
\* returned identifier succeeds with body B, body_size |B| and a raw buffer
\* whose header names K.
C1_ObjectRoundTrip ==
    (ret.op = "object_write" /\ ret.io = "ok") =>
        /\ ret.ok
        /\ \A r \in {object_read(fs, ret.sha)} :
               /\ r.rc = 0
               /\ r.body = ret.body
               /\ r.body_size = Len(ret.body)
               /\ HeaderKind(r.raw) = ret.kind

\* a tag whose body holds a NUL byte was written and is in the store
C1_Witness ==
    /\ ret.op = "object_write" /\ ret.ok
    /\ ret.kind = StrTag /\ ret.body = <<65, 0>>
    /\ ExpectedPath(ret.sha) \in DOMAIN fs.files

\* C2: an object_write that the filesystem lets through returns the 40
\* lowercase hex characters of SHA-1 of the framed bytes; when the object is
\* already stored with these bytes, the write succeeds with that identifier
\* and leaves every file and directory as it was.
C2_IdentifierAndIdempotentWrite ==
    [][(ret'.op = "object_write" /\ ret'.io = "ok") =>
         /\ ret'.ok
         /\ Len(ret'.sha) = 40
         /\ IsLowerHexOf(ret'.sha, SHA1(ret'.data))
         /\ (object_read(fs, ret'.sha).rc = 0
             /\ object_read(fs, ret'.sha).raw = ret'.data) => fs' = fs]_vars

\* a write of an object that could be read before the call
C2_Witness == ret.op = "object_write" /\ ret.io = "ok" /\ ret.had /\ ret.ok

\* C3: no step removes an intact stored object or changes the bytes at its
\* path.
C3_StoreImmutable ==
    [][\A p \in StoredPaths(fs) :
         decompress_data(fs.files[p], Len(fs.files[p])).ok =>
            p \in StoredPaths(fs') /\ fs'.files[p] = fs.files[p]]_vars

\* C4: object_read opens exactly ".git/objects/" + id[0:2] + "/" + id[2:40]
\* for an identifier of 40 characters and fails without a filesystem call for
\* any other length; object_write tests and creates only the directory
\* ".git/objects/" + id[0:2], opens only that same file path, and a stored
\* object lies there.
C4_PathDeterminism ==
    /\ ret.op = "object_read" =>
        IF Len(ret.sha1) = 40 THEN ret.log = <<ExpectedPath(ret.sha1)>>
        ELSE ret.rc = 1 /\ ret.log = <<>>
    /\ ret.op = "object_write" =>
        LET id == ObjectId(ret.data)
            n  == Len(ret.log)
        IN  /\ n >= 2
            /\ ret.log[n] = ExpectedPath(id)
            /\ \A i \in 1..(n - 1) : ret.log[i] = ExpectedDir(id)
            /\ ret.ok => ExpectedPath(id) \in DOMAIN fs.files

\* object_read found an object where object_write had put it
C4_Witness ==
    /\ ret.op = "object_read" /\ ret.rc = 0
    /\ ret.log = <<ExpectedPath(ret.sha1)>>

BadPackHeader(image) ==
    \/ Len(image) < 12
    \/ SubSeq(image, 1, 4) # <<80, 65, 67, 75>>
    \/ SubSeq(image, 5, 8) # <<0, 0, 0, 2>>

\* C5: packfile_parse on an image shorter than 12 bytes, without the magic
\* "PACK" or with a version other than 2 returns 1 at once: no pass of the
\* loop runs and the filesystem is as before the call.
C5_PackFraming ==
    [][(ret'.op = "packfile_parse" /\ BadPackHeader(pack')) =>
         /\ ret'.rc = 1
         /\ pc' = "idle"
         /\ written' = <<>>
         /\ fs' = fs]_vars

\* an image of version 3 that carries a record was rejected
C5_Witness ==
    /\ ret.op = "packfile_parse" /\ ret.rc = 1
    /\ pack = PackHeader(StrPACK, 3, 1) \o RecBlobHi
    /\ fs = InitFs

\* C6: while packfile_parse is in its loop, and when it has returned 0, the
\* records before the cursor have each written their object, in record
\* order, every one of these objects can be read from the store, and the
\* last one reads as the bytes its record produced.
C6_PackOrderPersistence ==
    (ret.op = "packfile_parse" /\ (pc = "pack" \/ ret.rc = 0)) =>
        /\ Len(written) = idx
        /\ \A k \in 1..Len(written) : object_read(fs, written[k]).rc = 0
        /\ idx > 0 => object_read(fs, written[idx]).raw = ret.rec.obj

\* a REF_DELTA was applied to a base that an earlier record of the same pack
\* had reconstructed
C6_Witness ==
    /\ ret.op = "packfile_parse" /\ ret.rec.rc = 0
    /\ ret.rec.type = OBJ_REF_DELTA
    /\ ret.rec.base_hex = ObjectId(BlobHiBang)
    /\ Len(written) = 2 /\ written[1] = ObjectId(BlobHiBang)

\* C7: a pass of the loop over a REF_DELTA record whose base has no file in
\* the store ends packfile_parse with 1; the pass writes nothing and no
\* later pass runs.
C7_MissingBase ==
    [][(pc = "pack" /\ ret'.rec.type = OBJ_REF_DELTA
        /\ ret'.rec.base_hex # <<>>
        /\ ExpectedPath(ret'.rec.base_hex) \notin DOMAIN fs.files) =>
         /\ ret'.rc = 1
         /\ pc' = "idle"
         /\ written' = written
         /\ fs' = fs]_vars

\* the delta came first and its base second in the same pack
C7_Witness ==
    /\ ret.op = "packfile_parse" /\ ret.rc = 1
    /\ ret.rec.err = "cannot read base object"
    /\ pack = PackHeader(StrPACK, 2, 2) \o RecDeltaAppend \o RecBlobHi
    /\ fs = InitFs

\* C8: when apply_delta succeeds, the length it reports is the target size
\* the stream declares.
C8_DeltaOutputLength ==
    (dOut.done /\ dOut.ok) => dOut.out_len = dOut.tgt_size

\* C9: apply_delta never copies from outside the base, from outside the
\* delta stream, or to outside the declared target size, and what it
\* returns is no longer than the declared target size.
C9_DeltaBoundsSafety ==
    dOut.done =>
        /\ ~dOut.unsafe
        /\ dOut.ok => /\ dOut.out_len <= dOut.tgt_size
                      /\ Len(dOut.out) = dOut.out_len

\* a COPY of offset 1 and size 2 from a base of 2 bytes was refused
C9_Witness ==
    /\ dOut.done /\ ~dOut.ok
    /\ dIn = [base |-> <<65, 66>>, delta |-> <<2, 2, 145, 1, 2>>]

\* C10: a REF_DELTA whose stream declares a source size other than the
\* length of the body of its base fails, and writes no object.
C10_SourceSizeCheck ==
    (ret.op = "packfile_parse" /\ ret.rec.type = OBJ_REF_DELTA
     /\ ret.rec.base_hex # <<>> /\ ret.rec.base_rc = 0
     /\ ret.rec.src_size # ret.rec.base_len) =>
        ret.rc = 1 /\ ret.rec.sha = <<>>

\* C11: a pass of the loop of packfile_parse that fails, at whatever stage,
\* ends the parse with 1, no later pass runs, and every object that earlier
\* records of the pack have written is still at its path with the same bytes.
C11_TerminalFailure ==
    [][(pc = "pack" /\ ret'.rec.rc # 0) =>
         /\ ret'.rc = 1
         /\ pc' = "idle"
         /\ written' = written
         /\ \A k \in 1..Len(written) :
              /\ ExpectedPath(written[k]) \in DOMAIN fs'.files
              /\ fs'.files[ExpectedPath(written[k])]
                   = fs.files[ExpectedPath(written[k])]]_vars

\* w occurs in data as a run of consecutive bytes
Contains(data, w) ==
    \E i \in 0..(Len(data) - Len(w)) : SubSeq(data, i + 1, i + Len(w)) = w

\* C12: for every response that contains the bytes "PACK",
\* pktline_strip_sideband succeeds and what it returns starts with "PACK".
C12_StripFindsPack ==
    (dOut.done /\ dIn.fn = "pktline_strip_sideband"
     /\ Contains(dOut.data, StrPACK)) =>
        dOut.rc = 0 /\ StartsWith(dOut.pack, StrPACK)

\* every piece is a well-formed line or a flush
WellFormed(pieces) ==
    \A i \in 1..Len(pieces) : pieces[i].kind \in {"line", "flush"}

\* the payloads of the channel-1 lines without their channel byte, in order
Channel1(pieces) ==
    Concat([i \in 1..Len(pieces) |->
        IF pieces[i].kind = "line" /\ Len(pieces[i].payload) >= 1
           /\ pieces[i].payload[1] = 1
        THEN Tail(pieces[i].payload) ELSE <<>>])

\* C13: for a response made of well-formed lines and flushes with at least
\* one non-empty channel-1 line, pktline_strip_sideband returns exactly the
\* channel-1 payloads in line order; lines of other channels, lines without
\* a channel and flushes add nothing and do not end the scan.
C13_SidebandDemux ==
    (dOut.done /\ dIn.fn = "pktline_strip_sideband"
     /\ WellFormed(dIn.pieces) /\ Channel1(dIn.pieces) # <<>>) =>
        /\ dOut.rc = 0
        /\ dOut.pack = Channel1(dIn.pieces)
        /\ dOut.pack_len = Len(Channel1(dIn.pieces))

\* two channel-1 lines around a flush were joined
C13_Witness ==
    /\ dOut.done /\ dIn.fn = "pktline_strip_sideband"
    /\ dIn.pieces = <<PktLine(<<1>> \o StrPACK), PktFlush, PktLine(<<1, 120, 121>>)>>
    /\ dOut.pack = <<80, 65, 67, 75, 120, 121>>

\* C14: for an identifier of 40 characters pktline_build_want reports 63
\* bytes, and they are "0032want " + id + "\n" + "0000" + "0009done\n".
C14_WantRequest ==
    (dOut.done /\ dIn.fn = "pktline_build_want" /\ Len(dIn.sha) = 40) =>
        /\ dOut.rc = 0
        /\ dOut.out_len = 63
        /\ dOut.body = <<48, 48, 51, 50, 119, 97, 110, 116, 32>> \o dIn.sha
                       \o <<10>> \o <<48, 48, 48, 48>>
                       \o <<48, 48, 48, 57, 100, 111, 110, 101, 10>>

\* a request for an identifier of 40 characters was built
C14_Witness ==
    /\ dOut.done /\ dIn.fn = "pktline_build_want"
    /\ dIn.sha = IdA /\ dOut.rc = 0 /\ Len(dOut.body) = 63

\* the index of the first flush among the pieces, 0 when there is none
FirstFlush(pieces) ==
    IF \E i \in 1..Len(pieces) : pieces[i].kind = "flush"
    THEN CHOOSE i \in 1..Len(pieces) :
            /\ pieces[i].kind = "flush"
            /\ \A j \in 1..(i - 1) : pieces[j].kind # "flush"
    ELSE 0

\* the index of the first piece after the first flush that is no flush, 0
\* when there is none
RefIndex(pieces) ==
    IF FirstFlush(pieces) > 0
       /\ \E i \in (FirstFlush(pieces) + 1)..Len(pieces) :
            pieces[i].kind # "flush"
    THEN CHOOSE i \in (FirstFlush(pieces) + 1)..Len(pieces) :
            /\ pieces[i].kind # "flush"
            /\ \A j \in (FirstFlush(pieces) + 1)..(i - 1) :
                 pieces[j].kind = "flush"
    ELSE 0

\* C15: when pktline_parse_head succeeds, what it returns is the first 40
\* payload bytes of the first line after the first flush that is no flush.
C15_HeadRef ==
    (dOut.done /\ dIn.fn = "pktline_parse_head" /\ dOut.rc = 0) =>
        /\ RefIndex(dIn.pieces) > 0
        /\ dIn.pieces[RefIndex(dIn.pieces)].kind = "line"
        /\ Len(dIn.pieces[RefIndex(dIn.pieces)].payload) >= 40
        /\ dOut.sha = SubSeq(dIn.pieces[RefIndex(dIn.pieces)].payload, 1, 40)

\* a line of the announcement block that looks like a ref was passed over
C15_Witness ==
    /\ dOut.done /\ dIn.fn = "pktline_parse_head" /\ dOut.rc = 0
    /\ dIn.pieces = <<PktLine(IdB \o <<10>>), PktFlush, PktLine(IdA \o <<32, 72>>)>>
    /\ dOut.sha = IdA

\* a piece that is no well-formed line: a prefix that is no hex, a length of
\* 1 to 3, a length beyond the buffer, fewer than four bytes
BadPiece(piece) == piece.kind \in {"badhex", "short", "overlong", "partial"}

\* C16 as stated: pktline_parse_head fails and returns no identifier when
\* some line of the response has a prefix that is no hex or is truncated,
\* and when no ref line follows the first flush.
C16_HeadErrorsAnyLine ==
    (dOut.done /\ dIn.fn = "pktline_parse_head"
     /\ (\/ \E i \in 1..Len(dIn.pieces) : BadPiece(dIn.pieces[i])
         \/ RefIndex(dIn.pieces) = 0)) =>
        dOut.rc = 1 /\ dOut.sha = <<>>

\* C16, amended: pktline_parse_head fails and returns no identifier when a
\* line with a prefix that is no hex or a truncated line occurs at or before
\* the first line after the first flush that is no flush, and when there is
\* no such line.
C16_HeadErrors ==
    (dOut.done /\ dIn.fn = "pktline_parse_head"
     /\ (\/ \E i \in 1..Len(dIn.pieces) :
              /\ BadPiece(dIn.pieces[i])
              /\ (RefIndex(dIn.pieces) = 0 \/ i <= RefIndex(dIn.pieces))
         \/ RefIndex(dIn.pieces) = 0)) =>
        dOut.rc = 1 /\ dOut.sha = <<>>

\* a prefix that is no hex stood where the ref line was due
C16_Witness ==
    /\ dOut.done /\ dIn.fn = "pktline_parse_head" /\ dOut.rc = 1
    /\ dIn.pieces = <<PktLine(<<35, 10>>), PktFlush,
                      PktOther("badhex", <<48, 48, 48, 103>>)>>

\* every entry is complete and no two entries of the tree have the same name
WellFormedTree(entries) ==
    /\ \A i \in 1..Len(entries) : entries[i].ok
    /\ \A i, j \in 1..Len(entries) :
         i # j => entries[i].name # entries[j].name

CloneOrder ==
    <<"clone_repo", "http_get_refs", "http_post_pack",
      "pktline_strip_sideband", "packfile_parse", "checkout_tree", "returned">>

StepIndex(p) == CHOOSE k \in 1..7 : CloneOrder[k] = p

C18_AllReleased == (pc = "returned" /\ ret.op = "clone_repo") => heap = {}

RECURSIVE TreeNames(_, _)
\* the names of the entries of a tree body from 0-based offset p on, in the
\* order they have in the body
TreeNames(body, p) ==
    IF p >= Len(body) THEN <<>>
    ELSE <<SubSeq(body, memchr(body, 32, p + 1, Len(body)) + 1,
                  memchr(body, 0, p + 1, Len(body)) - 1)>>
         \o TreeNames(body, memchr(body, 0, p + 1, Len(body)) + 20)

\* the body of a framed object
BodyOf(object_data) == Drop(object_data, memchr(object_data, 0, 1, Len(object_data)))

\* a comes before b in the lexicographic order of the bytes
BytesLess(a, b) ==
    \E k \in 1..(Len(a) + 1) :
        /\ k <= Len(b)
        /\ \A j \in 1..(k - 1) : a[j] = b[j]
        /\ (k = Len(a) + 1 \/ a[k] < b[k])

EvenHex(s) ==
    /\ Len(s) % 2 = 0
    /\ \A i \in 1..Len(s) :
         \/ s[i] >= 48 /\ s[i] <= 57
         \/ s[i] >= 97 /\ s[i] <= 102
         \/ s[i] >= 65 /\ s[i] <= 70

\* s with its capital letters A-Z turned into small ones
Lower(s) == [i \in 1..Len(s) |-> IF s[i] >= 65 /\ s[i] <= 90 THEN s[i] + 32 ELSE s[i]]

\* C21: hex_to_string of N bytes is a string of 2N characters out of 0-9 and
\* a-f; hex_string_to_bytes of what hex_to_string made of the bytes x
\* succeeds and gives x again; and hex_string_to_bytes succeeds on every
\* string s of hex digits of even length, and hex_to_string of its result
\* is s in lower case.
C21_HexRoundTrip ==
    /\ ret.op = "hex_to_string" =>
         /\ Len(ret.value) = 2 * Len(ret.arg)
         /\ \A i \in 1..Len(ret.value) : HexValue(ret.value[i]) >= 0
    /\ ret.op = "hex_string_to_bytes" /\ ret.prev = "hex_to_string" =>
         /\ ret.kind = "bytes"
         /\ ret.value = ret.before
    /\ ret.op = "hex_string_to_bytes" /\ EvenHex(ret.arg) => ret.kind = "bytes"
    /\ ret.op = "hex_to_string" /\ ret.prev = "hex_string_to_bytes"
       /\ EvenHex(ret.before) =>
         ret.value = Lower(ret.before)

\* the string "0F9a" has been decoded to the bytes 15, 154 and these have
\* been encoded to "0f9a"
C21_Witness ==
    /\ ret.op = "hex_to_string" /\ ret.prev = "hex_string_to_bytes"
    /\ dIn = [kind |-> "str", value |-> <<48, 70, 57, 97>>]
    /\ ret.before = <<48, 70, 57, 97>>
    /\ ret.arg = <<15, 154>>
    /\ ret.value = <<48, 102, 57, 97>>


\* the decompressed bytes of the object stored under sha1
StoredRaw(f, sha1) ==
    LET c == read_git_blob_file(f, sha1)
    IN  IF ~c.ok THEN [ok |-> FALSE, data |-> <<>>]
        ELSE decompress_data(c.data, Len(c.data))

\* raw has no NUL, or no space in its header, or a kind word before the
\* space that is none of commit, tree, blob, tag
MalformedFraming(raw) ==
    \/ memchr(raw, 0, 1, Len(raw)) = 0
    \/ memchr(raw, 32, 1, memchr(raw, 0, 1, Len(raw)) - 1) = 0
    \/ Take(raw, memchr(raw, 32, 1, memchr(raw, 0, 1, Len(raw)) - 1) - 1) \notin Kinds

\* C22: object_read of a stored object whose decompressed bytes have no NUL,
\* or no space between kind and size in the header, or a kind word other
\* than commit, tree, blob, tag, returns 1 and hands out no body.
C22_MalformedObject ==
    ret.op = "object_read" =>
        \A d \in {StoredRaw(fs, ret.sha1)} :
            d.ok /\ MalformedFraming(d.data) =>
                ret.rc = 1 /\ ret.body = <<>> /\ ret.body_size = 0


\* the name the store gives the pack kinds 1 to 4
KindName(k) ==
    IF k = 1 THEN StrCommit ELSE IF k = 2 THEN StrTree
    ELSE IF k = 3 THEN StrBlob ELSE StrTag

\* "<name> <|body|>\0<body>"
Framed(name, body) == name \o <<32>> \o FormatDecimal(Len(body)) \o <<0>> \o body

\* C23: when a pass of the loop of packfile_parse over a record of kind 1 to
\* 4 succeeds, the object it wrote is "<name> <n>\0<body>", with the name of
\* the kind, body the bytes the record's zlib stream inflates to and n their
\* number, and the store holds these bytes under the identifier returned.
C23_NonDeltaPersistence ==
    [][(pc = "pack" /\ ret'.rec.rc = 0
        /\ ret'.rec.type >= 1 /\ ret'.rec.type <= 4) =>
         \A h \in {read_type_and_size(pack, Len(pack), pos)} :
         \A z \in {Inflate(pack, h.pos)} :
             /\ ret'.rec.obj = Framed(KindName(h.type), z.out)
             /\ ret'.rec.sha = ObjectId(Framed(KindName(h.type), z.out))
             /\ object_read(fs', ret'.rec.sha).raw
                  = Framed(KindName(h.type), z.out)]_vars

\* C28: a pass of the loop of packfile_parse over a record whose zlib stream
\* inflates to more or to fewer bytes than the size its header declares ends
\* packfile_parse with 1 and writes nothing.
C28_DeclaredSizeEnforced ==
    [][pc = "pack" =>
         \A h \in {read_type_and_size(pack, Len(pack), pos)} :
         \A at \in {IF h.type = OBJ_REF_DELTA THEN h.pos + 20 ELSE h.pos} :
             (/\ h.rc = 0
              /\ Inflate(pack, at).status = "end"
              /\ Len(Inflate(pack, at).out) # h.size) =>
                 ret'.rc = 1 /\ fs' = fs]_vars


C25_InflateRetryTerminates ==
    /\ [][/\ pc = "decompress_data" => pos' = 8 * dIn.size
          /\ (pc = "loop" /\ pc' = "loop") =>
                /\ uncompress_code(dIn.z, pos).result = "Z_BUF_ERROR"
                /\ pos' = 2 * pos
                /\ pos' > pos
          /\ (pc = "loop" /\ pc' = "returned") =>
                /\ uncompress_code(dIn.z, pos).result # "Z_BUF_ERROR"
                /\ ret'.ok = (uncompress_code(dIn.z, pos).result = "Z_OK")
                /\ ret'.ok => (dIn.z.status = "end" /\ ret'.data = dIn.z.out)]_vars
    /\ <>(pc = "returned")

\* 12 bytes that inflate to 385 bytes were decoded on the fourth pass
C25_Witness ==
    /\ pc = "returned" /\ ret.op = "decompress_data" /\ ret.ok
    /\ dIn.size = 12 /\ Len(ret.data) = 385
    /\ pos = 768


\* bit k of the command byte c, and the number of bits set below bit k
CmdBit(c, k) == (c \div (2 ^ k)) % 2
BitsBelow(c, k) == Cardinality({j \in 0..(k - 1) : CmdBit(c, j) = 1})

\* the operand byte that bit k of the command at 0-based index p selects: the
\* operand bytes follow the command in the order of their bits; 0 when absent
Operand(delta, p, k) ==
    IF CmdBit(delta[p + 1], k) = 1
    THEN delta[p + 2 + BitsBelow(delta[p + 1], k)]
    ELSE 0

CopyOffset(delta, p) ==
    Operand(delta, p, 0) + (256 * Operand(delta, p, 1))
    + (65536 * Operand(delta, p, 2)) + (16777216 * Operand(delta, p, 3))

CopySize(delta, p) ==
    LET n == Operand(delta, p, 4) + (256 * Operand(delta, p, 5))
             + (65536 * Operand(delta, p, 6))
    IN  IF n = 0 THEN 65536 ELSE n

\* what the instruction at p adds to the output, and where the next one is
Contribution(base, delta, p) ==
    IF delta[p + 1] >= 128
    THEN SubSeq(base, CopyOffset(delta, p) + 1,
                CopyOffset(delta, p) + CopySize(delta, p))
    ELSE SubSeq(delta, p + 2, p + 1 + delta[p + 1])

NextInstr(delta, p) ==
    IF delta[p + 1] >= 128 THEN p + 1 + BitsBelow(delta[p + 1], 7)
    ELSE p + 1 + delta[p + 1]

RECURSIVE Contributions(_, _, _)
Contributions(base, delta, p) ==
    IF p >= Len(delta) THEN <<>>
    ELSE Contribution(base, delta, p)
         \o Contributions(base, delta, NextInstr(delta, p))

\* C26: when apply_delta succeeds, its output is, instruction after
\* instruction from behind the two sizes on, base[offset .. offset+size) for
\* a COPY (offset and size little-endian from the operand bytes that bits 0-3
\* and 4-6 select, an absent byte being 0 and a size of 0 being 0x10000), the
\* next n bytes of the stream for an INSERT of n in 1..127, and nothing for a
\* command byte of 0.
C26_DeltaSemantics ==
    (dOut.done /\ dOut.ok) =>
        Take(dOut.out, dOut.out_len)
          = Contributions(dIn.base, dIn.delta,
                read_var_int(dIn.delta, Len(dIn.delta),
                    read_var_int(dIn.delta, Len(dIn.delta), 0).pos).pos)

\* the example: base "AAAABBBB", COPY 0 4, INSERT "CCCC", COPY 4 4 gave
\* "AAAACCCCBBBB"
C26_Witness ==
    /\ dOut.done /\ dOut.ok
    /\ dIn = [base |-> <<65, 65, 65, 65, 66, 66, 66, 66>>,
              delta |-> <<8, 12, 144, 4, 4, 67, 67, 67, 67, 145, 4, 4>>]
    /\ dOut.out = <<65, 65, 65, 65, 67, 67, 67, 67, 66, 66, 66, 66>>


\* C27: when clone_repo has returned, with 0 or with 1 and from whichever
\* step, the working directory of the process is the one clone_repo was
\* called in.
C27_CwdRestored ==
    (ret.op = "clone_repo" /\ pc = "returned") => cwd = "original_dir"


\* C29: every pass of checkout_tree's parsing writes no more than 16 bytes
\* into mode and no more than 256 bytes into name, the terminator included:
\* an entry whose mode or name is longer is never copied
C29_ParseWithinBuffers ==
    ret.op = "checkout_tree" =>
        /\ copied(ret.mode_len) <= MODE_SIZE
        /\ copied(ret.name_len) <= NAME_SIZE


\* the path stays at or below the directory it is relative to: no prefix of
\* its components climbs above it
RECURSIVE InsideFrom(_, _, _)
InsideFrom(path, i, depth) ==
    IF i > Len(path) THEN TRUE
    ELSE LET e    == memchr(path, 47, i, Len(path))
             stop == IF e = 0 THEN Len(path) + 1 ELSE e
             comp == SubSeq(path, i, stop - 1)
             d    == IF comp = DotDot THEN depth - 1
                     ELSE IF comp \in {<<>>, <<46>>} THEN depth
                     ELSE depth + 1
         IN  d >= 0 /\ InsideFrom(path, stop + 1, d)

Inside(path) == InsideFrom(path, 1, 0)

\* the directories the call made and the files it made or changed
WrittenPaths(before, after) ==
    (after.dirs \ before.dirs)
    \cup { p \in DOMAIN after.files :
             p \notin DOMAIN before.files \/ after.files[p] # before.files[p] }

\* C30: every directory and every file checkout_tree writes lies inside the
\* directory it checks out into, whatever the entry names hold: a name with
\* a slash or ".." in it causes no write outside
C30_CheckoutConfined ==
    (dOut.done /\ dIn.fn = "checkout_tree") =>
        \A p \in WrittenPaths(CheckoutStore(dIn.entries), fs) : Inside(p)

====
